---- MODULE Spec2Model ----
(***************************************************************************)
(* AutoPot command simulation engine: Router.dispatch and what it calls    *)
(* (path resolution, filesystem snapshot, canned text lookup, single and   *)
(* ensemble simulation backends), over Session state.                      *)
(*                                                                         *)
(* Python str values are TLA+ strings; a character is a string of length   *)
(* one.  len(), slicing and concatenation are Len, SubSeq and \o.  The     *)
(* input alphabet has no backslash (shlex's escape character).             *)
(***************************************************************************)
EXTENDS Integers, Sequences, FiniteSets, TLC

VARIABLES
    cwd,                    \* Session.cwd
    username,               \* Session.username ("" stands for None)
    history,                \* Session.history
    scenario_id,            \* Session.scenario_id
    scenario_fs,            \* Session.scenario_fs (raw tree, or NoneVal)
    scenario_fs_snapshot,   \* Session.scenario_fs_snapshot (index, or NoneVal)
    ensemble_stats,         \* Router.ensemble_stats
    mode,                   \* Router configuration: "none" | "single" | "ensemble"
    deployment,             \* which scenarios root the ScenarioManager reads
    pc,                     \* position of the dispatch coroutine
    pending,                \* locals of the dispatch in progress
    slots,                  \* the backend calls in flight (asyncio.to_thread)
    calls,                  \* the simulate_command calls made by the dispatch
                            \* in progress or last completed
    audit,                  \* records appended to the events file by the
                            \* dispatch in progress or last completed
    last                    \* observation of the last completed dispatch

vars == <<cwd, username, history, scenario_id, scenario_fs,
          scenario_fs_snapshot, ensemble_stats, mode, deployment, pc,
          pending, slots, calls, audit, last>>

----------------------------------------------------------------------------
(* Bounds of the model *)

\* Router.max_output, the constructor parameter the router is built with
max_output == 256
\* length of the over-long command token / argument a client sends
LongLen == 264
\* number of characters of the over-long ASCII canned text
BigLen == 257
\* number of characters of the multi-byte canned text
WideLen == 150
\* commands recorded in the history
MaxHist == 1
\* arbitrations counted in the ensemble statistics
MaxTotal == 1

----------------------------------------------------------------------------
(* Python str operations *)

Min(a, b) == IF a <= b THEN a ELSE b
Max(a, b) == IF a >= b THEN a ELSE b

RECURSIVE Rep(_, _)
\* s * n
Rep(s, n) ==
    IF n = 0 THEN ""
    ELSE LET h == Rep(s, n \div 2)
         IN  IF n % 2 = 0 THEN h \o h ELSE h \o h \o s

Char(s, i) == SubSeq(s, i, i)

\* characters UTF-8 encodes in two and in three bytes
TwoByteChars == {"é"}
ThreeByteChars == {"€"}

\* len(s.encode())
ByteLen(s) ==
    Len(s) + Cardinality({i \in 1..Len(s) : Char(s, i) \in TwoByteChars})
           + 2 * Cardinality({i \in 1..Len(s) : Char(s, i) \in ThreeByteChars})

\* s[:n]
Prefix(s, n) == SubSeq(s, 1, Min(n, Len(s)))

\* s.startswith(p)
StartsWith(s, p) == Len(s) >= Len(p) /\ SubSeq(s, 1, Len(p)) = p

Whitespace == {" ", "\t"}

RECURSIVE LSkip(_, _, _)
\* first index >= i of s whose character is not in cs (Len(s)+1 if none)
LSkip(s, cs, i) ==
    IF i > Len(s) \/ Char(s, i) \notin cs THEN i ELSE LSkip(s, cs, i + 1)

RECURSIVE RSkip(_, _, _)
\* last index <= i of s whose character is not in cs (0 if none)
RSkip(s, cs, i) ==
    IF i < 1 \/ Char(s, i) \notin cs THEN i ELSE RSkip(s, cs, i - 1)

\* s.strip(cs)
StripChars(s, cs) ==
    LET a == LSkip(s, cs, 1)
        b == RSkip(s, cs, Len(s))
    IN  IF a > b THEN "" ELSE SubSeq(s, a, b)

\* s.strip()
Strip(s) == StripChars(s, Whitespace)

\* the indices of s holding a character of cs
Positions(s, cs) == {i \in 1..Len(s) : Char(s, i) \in cs}

RECURSIVE Ascending(_)
\* a finite set of integers as an ascending sequence
Ascending(S) ==
    IF S = {} THEN <<>>
    ELSE LET m == CHOOSE a \in S : \A b \in S : a <= b
         IN  <<m>> \o Ascending(S \ {m})

\* s.split(sep) for a one-character sep: the pieces between separators,
\* empty pieces included
Split(s, sep) ==
    LET P == Ascending(Positions(s, {sep}))
        n == Len(P)
    IN  [k \in 1..(n + 1) |->
            SubSeq(s, IF k = 1 THEN 1 ELSE P[k - 1] + 1,
                      IF k = n + 1 THEN Len(s) ELSE P[k] - 1)]

\* the non-empty elements of a sequence of strings
NonEmpty(seq) == SelectSeq(seq, LAMBDA e : e # "")

\* s.split(): the whitespace-separated words
SplitWs(s) ==
    LET P == Ascending(Positions(s, Whitespace))
        n == Len(P)
    IN  NonEmpty([k \in 1..(n + 1) |->
            SubSeq(s, IF k = 1 THEN 1 ELSE P[k - 1] + 1,
                      IF k = n + 1 THEN Len(s) ELSE P[k] - 1)])

RECURSIVE Join(_, _)
\* sep.join(seq)
Join(seq, sep) ==
    IF seq = <<>> THEN ""
    ELSE IF Len(seq) = 1 THEN seq[1]
    ELSE seq[1] \o sep \o Join(Tail(seq), sep)

Quotes == {"'", "\""}

RECURSIVE ShlexScan(_, _, _, _, _, _, _)
\* shlex's POSIX state machine with whitespace_split, run over the special
\* characters (whitespace and quotes) of the line at the positions P[k..]:
\* start is where the pending run of ordinary characters begins, tok the
\* token read so far, inTok whether a token has begun, quote the open quote.
ShlexScan(line, P, k, start, tok, inTok, quote) ==
    IF k > Len(P)
    THEN LET rest == SubSeq(line, start, Len(line))
         IN  IF quote # "" THEN [ok |-> FALSE, argv |-> <<>>]
             ELSE IF inTok \/ rest # ""
                  THEN [ok |-> TRUE, argv |-> <<tok \o rest>>]
                  ELSE [ok |-> TRUE, argv |-> <<>>]
    ELSE LET p   == P[k]
             c   == Char(line, p)
             seg == SubSeq(line, start, p - 1)
             cur == tok \o seg
             has == inTok \/ seg # ""
         IN  IF quote # ""
             THEN IF c = quote
                  THEN ShlexScan(line, P, k + 1, p + 1, cur, TRUE, "")
                  ELSE ShlexScan(line, P, k + 1, p + 1, cur \o c, TRUE, quote)
             ELSE IF c \in Quotes
                  THEN ShlexScan(line, P, k + 1, p + 1, cur, TRUE, c)
                  ELSE \* whitespace ends the token in progress
                       IF has
                       THEN LET r == ShlexScan(line, P, k + 1, p + 1, "", FALSE, "")
                            IN  [ok |-> r.ok, argv |-> <<cur>> \o r.argv]
                       ELSE ShlexScan(line, P, k + 1, p + 1, "", FALSE, "")

\* shlex.split(line): ok = FALSE stands for ValueError (no closing quotation)
ShlexSplit(line) ==
    ShlexScan(line, Ascending(Positions(line, Whitespace \cup Quotes)),
              1, 1, "", FALSE, "")

\* Router.dispatch's tokenization: shlex.split, and line.split() if it raises
Tokenize(line) ==
    LET r == ShlexSplit(line)
    IN  IF r.ok THEN r.argv ELSE SplitWs(line)

----------------------------------------------------------------------------
(* Python values: None, dict.get, truthiness *)

NoneVal == [kind |-> "none"]

\* d.get(k, default) on a dict modelled as a record
Get(d, k, default) == IF k \in DOMAIN d THEN d[k] ELSE default

\* values of the fields of a backend response: a str, an int (its decimal
\* digits in v) or None
PyStr(s) == [t |-> "str", v |-> s]
PyInt(digits) == [t |-> "int", v |-> digits]
PyNone == [t |-> "none", v |-> ""]

\* bool(x)
Truthy(x) ==
    CASE x.t = "str" -> x.v # ""
      [] x.t = "int" -> x.v # "0"
      [] OTHER -> FALSE

----------------------------------------------------------------------------
(* fs_snapshot.py *)

BASE_FS_PATH_PARTS == <<"home", "user">>
ROOT_FS_PATH == "/" \o Join(BASE_FS_PATH_PARTS, "/")

\* f with key k bound to v (dict item assignment)
Put(f, k, v) == [x \in (DOMAIN f) \cup {k} |-> IF x = k THEN v ELSE f[x]]

IsDir(node) == Get(node, "type", "") = "dir"

RECURSIVE build_index(_, _, _)
RECURSIVE build_children(_, _, _, _)
\* an index that keeps the node it already has for a path
build_index_first_wins(index, node, rel_path) ==
    LET here == IF rel_path \in DOMAIN index THEN index ELSE Put(index, rel_path, node)
    IN  IF IsDir(node)
        THEN build_children(here, Get(node, "children", <<>>), 1, rel_path)
        ELSE here

\* FileSystemSnapshot._build_index: the index after visiting node at rel_path
build_index(index, node, rel_path) ==
    LET here == Put(index, rel_path, node)
    IN  IF IsDir(node)
        THEN build_children(here, Get(node, "children", <<>>), 1, rel_path)
        ELSE here

\* the loop over node.get("children", []), from the k-th child on
build_children(index, children, k, rel_path) ==
    IF k > Len(children) THEN index
    ELSE LET child == children[k]
             name  == Get(child, "name", "")
         IN  IF name = ""
             THEN build_children(index, children, k + 1, rel_path)
             ELSE build_children(build_index(index, child, Append(rel_path, name)),
                                 children, k + 1, rel_path)

\* FileSystemSnapshot(root) for a dict root
FileSystemSnapshot(root) ==
    [kind |-> "snapshot", root |-> root, index |-> build_index(<<>>, root, <<>>)]

\* FileSystemSnapshot.get_node: the node, or NoneVal
get_node(snapshot, rel_path) ==
    IF rel_path \in DOMAIN snapshot.index THEN snapshot.index[rel_path] ELSE NoneVal

IsNode(n) == "kind" \notin DOMAIN n

\* FileSystemSnapshot.list_dir: the children, or NoneVal
list_dir(snapshot, rel_path) ==
    LET node == get_node(snapshot, rel_path)
    IN  IF ~IsNode(node) \/ ~IsDir(node) THEN NoneVal
        ELSE [kind |-> "list", items |-> Get(node, "children", <<>>)]

----------------------------------------------------------------------------
(* The scenarios root: fs.json and txtcmds/<name>.txt per scenario *)

File(name, size) == [type |-> "file", name |-> name, size |-> size]
Dir(name, children) == [type |-> "dir", name |-> name, children |-> children]

\* the tree of the repository's scenarios/default/fs.json, cut down: the
\* end-to-end tree of the specification with a nested directory, and a child
\* without a name
DefaultTree ==
    Dir("user", <<File("README.txt", 10),
                  Dir("logs", <<Dir("app", <<>>), [type |-> "file", size |-> 3]>>),
                  Dir("bin", <<>>)>>)

\* the tree of a second scenario
AltTree == Dir("user", <<Dir("data", <<>>), File("logs", 4)>>)

LongToken == Rep("x", LongLen)
BigText == Rep("a", BigLen)
WideText == Rep("é", WideLen)

Scenarios == {"default", "alt"}
Deployments == {"std", "nofs", "badfs"}

\* what json.loads gives for <root>/<scenario>/fs.json:
\* absent, unparsable, or the parsed value
FsFile(dep, scenario) ==
    CASE dep = "std" /\ scenario = "default" ->
            [state |-> "json", value |-> [kind |-> "dict", node |-> DefaultTree]]
      [] dep = "std" /\ scenario = "alt" ->
            [state |-> "json", value |-> [kind |-> "dict", node |-> AltTree]]
      [] dep = "badfs" /\ scenario = "default" ->
            [state |-> "json", value |-> [kind |-> "list"]]
      [] dep = "badfs" /\ scenario = "alt" -> [state |-> "unparsable"]
      [] OTHER -> [state |-> "absent"]

\* the file <root>/<path>: absent, unreadable, or its text
TxtFile(dep, path) ==
    CASE path = "default/txtcmds/uname.txt" ->
            [state |-> "text", text |-> "Linux autopot 5.4.0 x86_64"]
      [] path = "default/txtcmds/ps.txt" ->
            [state |-> "text", text |-> "  PID TTY          TIME CMD\n    1 ?        00:00:01 init"]
      [] path = "alt/txtcmds/ps.txt" ->
            [state |-> "text", text |-> "  PID TTY          TIME CMD"]
      [] path = "default/txtcmds/etc_passwd.txt" ->
            [state |-> "text", text |-> "root:x:0:0:root:/root:/bin/sh"]
      [] path = "alt/txtcmds/etc_passwd.txt" ->
            [state |-> "text", text |-> "admin:x:0:0:admin:/root:/bin/ash"]
      [] path = "default/txtcmds/id.txt" ->
            [state |-> "text", text |-> "uid=0(root) gid=0(root)"]
      [] path = "default/txtcmds/big.txt" -> [state |-> "text", text |-> BigText]
      [] path = "default/txtcmds/wide.txt" -> [state |-> "text", text |-> WideText]
      [] path = "default/txtcmds/broken.txt" -> [state |-> "unreadable"]
      [] path = "default/txtcmds/ls.txt" /\ dep = "nofs" ->
            [state |-> "text", text |-> "README.txt  bin  logs"]
      [] path = "/srv/autopot/notes.txt" ->
            [state |-> "text", text |-> "deploy key: hunter2"]
      [] OTHER -> [state |-> "absent"]

\* ScenarioManager.scenarios_root, resolved to an absolute path
scenarios_root == "/srv/autopot/scenarios"

\* the directories a path leads through as the operating system walks it: ""
\* and "." stay, ".." goes up, and no further than the root
RECURSIVE OsParts(_, _, _)
OsParts(entries, k, parts) ==
    IF k > Len(entries) THEN parts
    ELSE IF entries[k] \in {"", "."} THEN OsParts(entries, k + 1, parts)
    ELSE IF entries[k] = ".."
    THEN OsParts(entries, k + 1, SubSeq(parts, 1, Len(parts) - 1))
    ELSE OsParts(entries, k + 1, Append(parts, entries[k]))

\* the file a pathlib path names: relative to scenarios_root when it lies
\* under it (the form TxtFile takes), absolute otherwise
OsPath(path) ==
    LET file == "/" \o Join(OsParts(Split(path, "/"), 1, <<>>), "/")
    IN  IF StartsWith(file, scenarios_root \o "/")
        THEN SubSeq(file, Len(scenarios_root) + 2, Len(file))
        ELSE file

----------------------------------------------------------------------------
(* scenario.py: ScenarioManager *)

\* the candidate scenario directories, the session's first
CandidateScenarios(scenario) ==
    IF scenario # "" THEN <<scenario, "default">> ELSE <<"default">>

RECURSIVE first_existing(_, _, _, _)
first_existing(dep, cands, k, cmdname) ==
    IF k > Len(cands) THEN NoneVal
    ELSE LET name == cmdname \o ".txt"
             p == IF StartsWith(name, "/") THEN name
                  ELSE scenarios_root \o "/" \o cands[k] \o "/txtcmds/" \o name
         IN  IF TxtFile(dep, OsPath(p)).state # "absent"
             THEN [kind |-> "path", path |-> p]
             ELSE first_existing(dep, cands, k + 1, cmdname)

\* ScenarioManager.get_txtcmd_path: the first candidate that exists, or NoneVal
get_txtcmd_path(dep, scenario, cmdname) ==
    IF cmdname = "" THEN NoneVal
    ELSE first_existing(dep, CandidateScenarios(scenario), 1, cmdname)

RECURSIVE first_loadable(_, _, _)
first_loadable(dep, cands, k) ==
    IF k > Len(cands) THEN NoneVal
    ELSE LET f == FsFile(dep, cands[k])
         IN  IF f.state = "json" THEN f.value
             ELSE first_loadable(dep, cands, k + 1)

\* ScenarioManager.load_fs: the first fs.json that exists and parses, or NoneVal
load_fs(dep, scenario) == first_loadable(dep, CandidateScenarios(scenario), 1)

----------------------------------------------------------------------------
(* session.py: the fields of a Session that dispatch reads and writes,      *)
(* gathered in a record s                                                   *)

Session ==
    [cwd |-> cwd, username |-> username, history |-> history,
     scenario_id |-> scenario_id, scenario_fs |-> scenario_fs,
     scenario_fs_snapshot |-> scenario_fs_snapshot]

\* bool(raw) of a parsed fs.json value: None and {} are falsy
TruthyFs(v) ==
    \/ v.kind = "list"
    \/ v.kind = "dict" /\ DOMAIN v.node # {}

----------------------------------------------------------------------------
(* router.py: path resolution *)

RECURSIVE resolve_absolute(_, _, _)
\* the loop over target.split("/") of an absolute target
resolve_absolute(entries, k, parts) ==
    IF k > Len(entries) THEN parts
    ELSE LET entry == entries[k]
         IN  IF entry = "" \/ entry = "."
             THEN resolve_absolute(entries, k + 1, parts)
             ELSE IF entry = ".."
             THEN resolve_absolute(entries, k + 1,
                     IF parts # <<>> THEN SubSeq(parts, 1, Len(parts) - 1)
                     ELSE parts)
             ELSE resolve_absolute(entries, k + 1, Append(parts, entry))

RECURSIVE resolve_relative_unclamped(_, _, _)
\* the loop over a relative target popping a segment on every "..", the
\* segments of the root included
resolve_relative_unclamped(entries, k, cwd_parts) ==
    IF k > Len(entries) THEN cwd_parts
    ELSE LET entry == entries[k]
         IN  IF entry = "" \/ entry = "."
             THEN resolve_relative_unclamped(entries, k + 1, cwd_parts)
             ELSE IF entry = ".."
             THEN resolve_relative_unclamped(entries, k + 1,
                     IF cwd_parts # <<>>
                     THEN SubSeq(cwd_parts, 1, Len(cwd_parts) - 1)
                     ELSE cwd_parts)
             ELSE resolve_relative_unclamped(entries, k + 1, Append(cwd_parts, entry))

RECURSIVE resolve_relative(_, _, _)
\* the loop over target.split("/") of a relative target, from cwd_parts
resolve_relative(entries, k, cwd_parts) ==
    IF k > Len(entries) THEN cwd_parts
    ELSE LET entry == entries[k]
         IN  IF entry = "" \/ entry = "."
             THEN resolve_relative(entries, k + 1, cwd_parts)
             ELSE IF entry = ".."
             THEN resolve_relative(entries, k + 1,
                     IF Len(cwd_parts) > Len(BASE_FS_PATH_PARTS)
                     THEN SubSeq(cwd_parts, 1, Len(cwd_parts) - 1)
                     ELSE cwd_parts)
             ELSE resolve_relative(entries, k + 1, Append(cwd_parts, entry))

HasBasePrefix(parts) ==
    /\ Len(parts) >= Len(BASE_FS_PATH_PARTS)
    /\ SubSeq(parts, 1, Len(BASE_FS_PATH_PARTS)) = BASE_FS_PATH_PARTS

\* _resolve_target_parts without the test of an absolute target's first
\* segments against BASE_FS_PATH_PARTS
resolve_target_parts_unchecked(s, target0) ==
    LET target == Strip(target0)
    IN  IF StartsWith(target, "/")
        THEN [ok |-> TRUE, parts |-> resolve_absolute(Split(target, "/"), 1, <<>>)]
        ELSE LET cp == NonEmpty(Split(StripChars(s.cwd, {"/"}), "/"))
                 cwd_parts == IF HasBasePrefix(cp) THEN cp ELSE BASE_FS_PATH_PARTS
             IN  [ok |-> TRUE,
                  parts |-> resolve_relative(Split(target, "/"), 1, cwd_parts)]

\* Router._resolve_target_parts: ok = FALSE stands for None
resolve_target_parts(s, target0) ==
    LET target == Strip(target0)
    IN  IF StartsWith(target, "/")
        THEN LET parts == resolve_absolute(Split(target, "/"), 1, <<>>)
             IN  IF HasBasePrefix(parts)
                 THEN [ok |-> TRUE, parts |-> parts]
                 ELSE [ok |-> FALSE, parts |-> <<>>]
        ELSE LET cp == NonEmpty(Split(StripChars(s.cwd, {"/"}), "/"))
                 cwd_parts == IF HasBasePrefix(cp) THEN cp ELSE BASE_FS_PATH_PARTS
             IN  [ok |-> TRUE,
                  parts |-> resolve_relative(Split(target, "/"), 1, cwd_parts)]

\* parts[len(BASE_FS_PATH_PARTS):]
RelOf(parts) == SubSeq(parts, Len(BASE_FS_PATH_PARTS) + 1, Len(parts))

----------------------------------------------------------------------------
(* router.py: the filesystem caches *)

\* Router._get_fs_snapshot: raised stands for the TypeError of dict(root) on
\* a root that is no mapping; snap is the snapshot or NoneVal
get_fs_snapshot(dep, s) ==
    IF s.scenario_fs_snapshot.kind = "snapshot"
    THEN [raised |-> FALSE, snap |-> s.scenario_fs_snapshot, s |-> s]
    ELSE LET raw == IF TruthyFs(s.scenario_fs) THEN s.scenario_fs
                    ELSE load_fs(dep, s.scenario_id)
         IN  IF ~TruthyFs(raw)
             THEN [raised |-> FALSE, snap |-> NoneVal, s |-> s]
             ELSE IF raw.kind # "dict"
             THEN [raised |-> TRUE, snap |-> NoneVal, s |-> s]
             ELSE LET snapshot == FileSystemSnapshot(raw.node)
                  IN  [raised |-> FALSE, snap |-> snapshot,
                       s |-> [s EXCEPT !.scenario_fs = raw,
                                       !.scenario_fs_snapshot = snapshot]]

\* Router._get_fs_for_simulation
get_fs_for_simulation(dep, s) ==
    IF TruthyFs(s.scenario_fs)
    THEN [fs |-> s.scenario_fs, s |-> s]
    ELSE LET raw == load_fs(dep, s.scenario_id)
             fs  == IF TruthyFs(raw) THEN raw
                    ELSE [kind |-> "dict",
                          node |-> [type |-> "dir",
                                    name |-> BASE_FS_PATH_PARTS[Len(BASE_FS_PATH_PARTS)],
                                    children |-> <<>>]]
         IN  [fs |-> fs, s |-> [s EXCEPT !.scenario_fs = fs]]

----------------------------------------------------------------------------
(* router.py: ls formatting *)

DEFAULT_DIR_PERMS == "drwxr-xr-x"
DEFAULT_FILE_PERMS == "-rw-r--r--"
DEFAULT_OWNER == "user"
DEFAULT_GROUP == "user"
DEFAULT_TIMESTAMP == "Jan 01 00:00"

\* f"{x:>w}"
PadLeft(x, w) == Rep(" ", Max(0, w - Len(x))) \o x

\* an entry line that gives every node the permissions and link count of a file
format_ls_entry_as_file(node, name) ==
    DEFAULT_FILE_PERMS \o " " \o PadLeft(ToString(1), 3) \o " " \o DEFAULT_OWNER
        \o " " \o DEFAULT_GROUP \o " " \o PadLeft(ToString(Get(node, "size", 0)), 8)
        \o " " \o DEFAULT_TIMESTAMP \o " " \o name

\* _format_ls_entry
format_ls_entry(node, name) ==
    LET perms == IF IsDir(node) THEN DEFAULT_DIR_PERMS ELSE DEFAULT_FILE_PERMS
        links == IF IsDir(node) THEN 2 ELSE 1
        size  == Get(node, "size", 0)
    IN  perms \o " " \o PadLeft(ToString(links), 3) \o " " \o DEFAULT_OWNER
              \o " " \o DEFAULT_GROUP \o " " \o PadLeft(ToString(size), 8)
              \o " " \o DEFAULT_TIMESTAMP \o " " \o name

\* the characters of file names, in code point order
Alphabet ==
    " -.0123456789ABCDEFGHIJKLMNOPQRSTUVWXYZ_abcdefghijklmnopqrstuvwxyz"

\* ord(c), up to an order-preserving renumbering
Ord(c) == CHOOSE i \in 1..Len(Alphabet) : Char(Alphabet, i) = c

RECURSIVE StrLess(_, _)
\* a < b on str
StrLess(a, b) ==
    IF b = "" THEN FALSE
    ELSE IF a = "" THEN TRUE
    ELSE IF Char(a, 1) = Char(b, 1)
         THEN StrLess(SubSeq(a, 2, Len(a)), SubSeq(b, 2, Len(b)))
         ELSE Ord(Char(a, 1)) < Ord(Char(b, 1))

RECURSIVE InsertByName(_, _)
\* entry put into a list sorted by name, after the entries not greater
InsertByName(sorted, entry) ==
    IF sorted = <<>> THEN <<entry>>
    ELSE IF StrLess(Get(entry, "name", ""), Get(Head(sorted), "name", ""))
         THEN <<entry>> \o sorted
         ELSE <<Head(sorted)>> \o InsertByName(Tail(sorted), entry)

RECURSIVE SortedByName(_)
\* sorted(children, key=lambda entry: entry.get("name") or "") (stable)
SortedByName(children) ==
    IF children = <<>> THEN <<>>
    ELSE InsertByName(SortedByName(SubSeq(children, 1, Len(children) - 1)),
                      children[Len(children)])

----------------------------------------------------------------------------
(* router.py: pwd, cd, ls.  A builtin's result is                            *)
(*   kind "out"   : it returned (out, False), with the session as it left it *)
(*   kind "none"  : it returned None (not handled)                           *)
(*   kind "raise" : it raised                                                *)

BOut(out, s) == [kind |-> "out", out |-> out, s |-> s]
BNone(s) == [kind |-> "none", out |-> "", s |-> s]
BRaise(s) == [kind |-> "raise", out |-> "", s |-> s]

CdError(display) == "bash: cd: " \o display \o ": No such file or directory"

\* a cd that goes wherever the target resolves to, without looking it up
handle_cd_unresolved(dep, s, argv) ==
    LET dest == IF Len(argv) > 1 THEN argv[2] ELSE ROOT_FS_PATH
        g    == get_fs_snapshot(dep, s)
    IN  IF g.raised THEN BRaise(g.s)
        ELSE IF g.snap.kind # "snapshot" THEN BNone(g.s)
        ELSE LET r == resolve_target_parts(g.s, dest)
                 display == IF Len(argv) > 1 THEN argv[2] ELSE dest
             IN  IF ~r.ok THEN BOut(CdError(display), g.s)
                 ELSE BOut("", [g.s EXCEPT !.cwd = "/" \o Join(r.parts, "/")])

\* _handle_cd without the test that the node found is a directory
handle_cd_any_node(dep, s, argv) ==
    LET dest == IF Len(argv) > 1 THEN argv[2] ELSE ROOT_FS_PATH
        g    == get_fs_snapshot(dep, s)
    IN  IF g.raised THEN BRaise(g.s)
        ELSE IF g.snap.kind # "snapshot" THEN BNone(g.s)
        ELSE LET r == resolve_target_parts(g.s, dest)
                 display == IF Len(argv) > 1 THEN argv[2] ELSE dest
             IN  IF ~r.ok THEN BOut(CdError(display), g.s)
                 ELSE LET node == get_node(g.snap, RelOf(r.parts))
                      IN  IF ~IsNode(node)
                          THEN BOut(CdError(display), g.s)
                          ELSE BOut("", [g.s EXCEPT !.cwd = "/" \o Join(r.parts, "/")])

\* _handle_cd storing the target as given, joined to the old cwd when it is
\* relative, instead of the resolved parts
handle_cd_as_given(dep, s, argv) ==
    LET dest == IF Len(argv) > 1 THEN argv[2] ELSE ROOT_FS_PATH
        g    == get_fs_snapshot(dep, s)
    IN  IF g.raised THEN BRaise(g.s)
        ELSE IF g.snap.kind # "snapshot" THEN BNone(g.s)
        ELSE LET r == resolve_target_parts(g.s, dest)
                 display == IF Len(argv) > 1 THEN argv[2] ELSE dest
             IN  IF ~r.ok THEN BOut(CdError(display), g.s)
                 ELSE LET node == get_node(g.snap, RelOf(r.parts))
                      IN  IF ~IsNode(node) \/ ~IsDir(node)
                          THEN BOut(CdError(display), g.s)
                          ELSE BOut("", [g.s EXCEPT !.cwd =
                                    IF StartsWith(Strip(dest), "/") THEN Strip(dest)
                                    ELSE g.s.cwd \o "/" \o Strip(dest)])

\* Router._handle_cd
handle_cd(dep, s, argv) ==
    LET dest == IF Len(argv) > 1 THEN argv[2] ELSE ROOT_FS_PATH
        g    == get_fs_snapshot(dep, s)
    IN  IF g.raised THEN BRaise(g.s)
        ELSE IF g.snap.kind # "snapshot" THEN BNone(g.s)
        ELSE LET r == resolve_target_parts(g.s, dest)
                 display == IF Len(argv) > 1 THEN argv[2] ELSE dest
             IN  IF ~r.ok THEN BOut(CdError(display), g.s)
                 ELSE LET node == get_node(g.snap, RelOf(r.parts))
                      IN  IF ~IsNode(node) \/ ~IsDir(node)
                          THEN BOut(CdError(display), g.s)
                          ELSE BOut("", [g.s EXCEPT !.cwd = "/" \o Join(r.parts, "/")])

LsError(display) ==
    "ls: cannot access '" \o display \o "': No such file or directory"

\* the arguments of ls with the tokens starting with '-' kept among them
ls_args_with_flags(argv) == SelectSeq(Tail(argv), LAMBDA a : a # "")

\* _handle_ls: the arguments that are not empty and do not start with '-'
ls_args(argv) == SelectSeq(Tail(argv), LAMBDA a : a # "" /\ ~StartsWith(a, "-"))

\* a listing that gives the parent's entry before the directory's own
ls_lines_parent_first(node, parent_node, sorted_children) ==
    <<format_ls_entry(parent_node, ".."), format_ls_entry(node, ".")>>
    \o [i \in 1..Len(sorted_children) |->
           format_ls_entry(sorted_children[i], Get(sorted_children[i], "name", ""))]

\* _handle_ls: the lines of the listing of a directory
ls_lines(node, parent_node, sorted_children) ==
    <<format_ls_entry(node, "."), format_ls_entry(parent_node, "..")>>
    \o [i \in 1..Len(sorted_children) |->
           format_ls_entry(sorted_children[i], Get(sorted_children[i], "name", ""))]

\* the target shown as it was typed, also when none was typed
ls_display_as_typed(target) == target

\* _handle_ls: display = target or "."
ls_display(target) == IF target # "" THEN target ELSE "."

\* Router._handle_ls
handle_ls(dep, s, argv) ==
    LET g == get_fs_snapshot(dep, s)
    IN  IF g.raised THEN BRaise(g.s)
        ELSE IF g.snap.kind # "snapshot" THEN BNone(g.s)
        ELSE
        LET args   == ls_args(argv)
            target == IF args # <<>> THEN args[1] ELSE ""
            r      == resolve_target_parts(g.s, target)
            display == ls_display(target)
        IN  IF ~r.ok THEN BOut(LsError(display), g.s)
            ELSE
            LET rel  == RelOf(r.parts)
                node == get_node(g.snap, rel)
            IN  IF ~IsNode(node) THEN BOut(LsError(display), g.s)
                ELSE IF ~IsDir(node)
                THEN LET nm == Get(node, "name", "")
                     IN  BOut(format_ls_entry(node, IF nm # "" THEN nm ELSE target), g.s)
                ELSE
                LET listed   == list_dir(g.snap, rel)
                    children == IF listed.kind = "list" THEN listed.items ELSE <<>>
                    parent_rel == IF rel # <<>> THEN SubSeq(rel, 1, Len(rel) - 1) ELSE rel
                    found    == get_node(g.snap, parent_rel)
                    parent_node == IF IsNode(found) THEN found ELSE node
                    sorted_children == SortedByName(children)
                    lines == ls_lines(node, parent_node, sorted_children)
                IN  BOut(Join(lines, "\n"), g.s)

\* _handle_builtin with ls entering the directory it lists, as cd would
handle_builtin_ls_enters(dep, s, argv) ==
    IF argv = <<>> THEN BNone(s)
    ELSE LET cmd == argv[1]
         IN  IF cmd = "pwd" THEN BOut(s.cwd, s)
             ELSE IF cmd = "cd" THEN handle_cd(dep, s, argv)
             ELSE IF cmd = "ls"
             THEN [handle_ls(dep, s, argv) EXCEPT
                      !.s = handle_cd(dep, s,
                               <<"cd">> \o SelectSeq(Tail(argv),
                                   LAMBDA a : a # "" /\ ~StartsWith(a, "-"))).s]
             ELSE BNone(s)

\* Router._handle_builtin
handle_builtin(dep, s, argv) ==
    IF argv = <<>> THEN BNone(s)
    ELSE LET cmd == argv[1]
         IN  IF cmd = "pwd" THEN BOut(s.cwd, s)
             ELSE IF cmd = "cd" THEN handle_cd(dep, s, argv)
             ELSE IF cmd = "ls" THEN handle_ls(dep, s, argv)
             ELSE BNone(s)

----------------------------------------------------------------------------
(* handlers/id.py, handlers/whoami.py, handlers/history.py *)

\* handlers.id.run
id_run(s) ==
    LET user_label == IF s.username # "" THEN s.username ELSE "root"
    IN  "uid=1000(" \o user_label \o ") gid=1000(" \o user_label
            \o ") groups=1000(" \o user_label \o ")"

\* whoami answering with the label of id
whoami_run_as_id(s) == IF s.username # "" THEN s.username ELSE "root"

\* handlers.whoami.run
whoami_run(s) == IF s.username # "" THEN s.username ELSE "guest"

\* the history with a newline behind every command
history_run_terminated(s) ==
    IF s.history = <<>> THEN "" ELSE Join(s.history, "\n") \o "\n"

\* handlers.history.run
history_run(s) == Join(s.history, "\n")

----------------------------------------------------------------------------
(* llm/__init__.py: BaseLLMClient.simulate_command over what _raw_generate   *)
(* gives: it raises, it returns text holding no JSON object, or text that    *)
(* parses to obj                                                             *)

SimulateKeys == {"stdout", "stderr", "exit_code", "explanation"}
SimulateTypes ==
    [stdout |-> "str", stderr |-> "str", exit_code |-> "int", explanation |-> "str"]

\* _validate_and_parse_json(text, SIMULATE_SCHEMA): ok = FALSE stands for None
validate_and_parse_json(raw) ==
    IF raw.kind # "json" THEN [ok |-> FALSE, obj |-> <<>>]
    ELSE IF /\ {"stdout", "exit_code"} \subseteq DOMAIN raw.obj
            /\ DOMAIN raw.obj \subseteq SimulateKeys
            /\ \A k \in DOMAIN raw.obj : raw.obj[k].t = SimulateTypes[k]
         THEN [ok |-> TRUE, obj |-> raw.obj]
         ELSE [ok |-> FALSE, obj |-> <<>>]

ParseFallback ==
    [stdout |-> PyStr(""), stderr |-> PyStr("llm-parse-error"),
     exit_code |-> PyInt("1"), explanation |-> PyStr("failed to parse LLM output")]

\* dict.setdefault over the four fields
SetDefaults(obj) ==
    [k \in SimulateKeys |->
        IF k \in DOMAIN obj THEN obj[k]
        ELSE IF k = "exit_code" THEN PyInt("1") ELSE PyStr("")]

Raises == [kind |-> "raise"]
Returns(v) == [kind |-> "value", value |-> v]
PyDict(d) == [kind |-> "dict", d |-> d]
NotADict == [kind |-> "other"]

\* BaseLLMClient.simulate_command
simulate_command(raw) ==
    IF raw.kind = "raise" THEN Raises
    ELSE LET parsed == validate_and_parse_json(raw)
         IN  IF ~parsed.ok THEN Returns(PyDict(ParseFallback))
             ELSE Returns(PyDict(SetDefaults(parsed.obj)))

\* what _raw_generate does in a call
RawGenerations ==
    { [kind |-> "raise"],
      [kind |-> "text"],
      [kind |-> "json", obj |-> [stdout |-> PyStr("ok"), exit_code |-> PyInt("0")]],
      [kind |-> "json", obj |-> [stdout |-> PyInt("5"), exit_code |-> PyInt("0")]] }

\* what a backend that only has the LLMClient shape (as the tests' dummies)
\* returns from simulate_command
DuckReturns ==
    { NotADict,
      PyDict([stdout |-> PyStr("simulated stdout"), stderr |-> PyStr("simulated stderr"),
              exit_code |-> PyInt("0"), explanation |-> PyStr("ok")]),
      PyDict([stdout |-> PyStr(""), stderr |-> PyStr("err"), exit_code |-> PyInt("1")]),
      PyDict([stdout |-> PyInt("5"), stderr |-> PyStr("")]),
      PyDict([stdout |-> PyStr(BigText), exit_code |-> PyInt("0")]) }

\* the outcomes of one simulate_command call
BackendOutcomes ==
    {simulate_command(raw) : raw \in RawGenerations} \cup {Returns(v) : v \in DuckReturns}

\* the outcomes drawn for each of the two calls of an arbitration: those of
\* a BaseLLMClient
EnsembleOutcomes == {simulate_command(raw) : raw \in RawGenerations}

----------------------------------------------------------------------------
(* router.py: formatting and scoring of a response *)

\* Router._format_simulated_output followed by output.encode(): raised stands
\* for the TypeError of join or the AttributeError of encode on a value that
\* is no str
format_simulated_output(response) ==
    LET stdout == Get(response, "stdout", PyStr(""))
        stderr == Get(response, "stderr", PyStr(""))
    IN  IF Truthy(stdout) /\ Truthy(stderr)
        THEN IF stdout.t = "str" /\ stderr.t = "str"
             THEN [raised |-> FALSE, out |-> stdout.v \o "\n" \o stderr.v]
             ELSE [raised |-> TRUE, out |-> ""]
        ELSE LET chosen == IF Truthy(stdout) THEN stdout
                           ELSE IF Truthy(stderr) THEN stderr ELSE PyStr("")
             IN  IF chosen.t = "str" THEN [raised |-> FALSE, out |-> chosen.v]
                 ELSE [raised |-> TRUE, out |-> ""]

\* a scoring without the ten points every structured response gets
score_response_no_base(result) ==
    IF ~result.valid \/ result.response.kind # "dict"
    THEN [raised |-> FALSE, score |-> 0]
    ELSE LET response == result.response.d
             stdout == Get(response, "stdout", PyStr(""))
             stderr == Get(response, "stderr", PyStr(""))
             exit_code == Get(response, "exit_code", PyNone)
             explanation == Get(response, "explanation", PyNone)
         IN  IF \/ Truthy(stdout) /\ stdout.t # "str"
                \/ Truthy(stderr) /\ stderr.t # "str"
             THEN [raised |-> TRUE, score |-> 0]
             ELSE [raised |-> FALSE,
                   score |-> (IF exit_code.t = "int" /\ exit_code.v = "0" THEN 5 ELSE 0)
                     + (IF Truthy(stdout) /\ Len(stdout.v) > 0 THEN 5 ELSE 0)
                     + (IF Truthy(stdout) /\ Len(stdout.v) > 10 THEN 3 ELSE 0)
                     + (IF ~Truthy(stderr) \/ Len(stderr.v) = 0 THEN 2 ELSE 0)
                     + (IF Truthy(explanation) THEN 1 ELSE 0)]

\* the scoring with its length bonus given to every non-empty stdout
score_response_short_bonus(result) ==
    IF ~result.valid \/ result.response.kind # "dict"
    THEN [raised |-> FALSE, score |-> 0]
    ELSE LET response == result.response.d
             stdout == Get(response, "stdout", PyStr(""))
             stderr == Get(response, "stderr", PyStr(""))
             exit_code == Get(response, "exit_code", PyNone)
             explanation == Get(response, "explanation", PyNone)
         IN  IF \/ Truthy(stdout) /\ stdout.t # "str"
                \/ Truthy(stderr) /\ stderr.t # "str"
             THEN [raised |-> TRUE, score |-> 0]
             ELSE [raised |-> FALSE,
                   score |-> 10
                     + (IF exit_code.t = "int" /\ exit_code.v = "0" THEN 5 ELSE 0)
                     + (IF Truthy(stdout) /\ Len(stdout.v) > 0 THEN 8 ELSE 0)
                     + (IF ~Truthy(stderr) \/ Len(stderr.v) = 0 THEN 2 ELSE 0)
                     + (IF Truthy(explanation) THEN 1 ELSE 0)]

\* Router._score_response: raised stands for the TypeError of len() on a
\* truthy value that is no str
score_response(result) ==
    IF ~result.valid \/ result.response.kind # "dict"
    THEN [raised |-> FALSE, score |-> 0]
    ELSE LET response == result.response.d
             stdout == Get(response, "stdout", PyStr(""))
             stderr == Get(response, "stderr", PyStr(""))
             exit_code == Get(response, "exit_code", PyNone)
             explanation == Get(response, "explanation", PyNone)
         IN  IF \/ Truthy(stdout) /\ stdout.t # "str"
                \/ Truthy(stderr) /\ stderr.t # "str"
             THEN [raised |-> TRUE, score |-> 0]
             ELSE [raised |-> FALSE,
                   score |-> 10
                     + (IF exit_code.t = "int" /\ exit_code.v = "0" THEN 5 ELSE 0)
                     + (IF Truthy(stdout) /\ Len(stdout.v) > 0 THEN 5 ELSE 0)
                     + (IF Truthy(stdout) /\ Len(stdout.v) > 10 THEN 3 ELSE 0)
                     + (IF ~Truthy(stderr) \/ Len(stderr.v) = 0 THEN 2 ELSE 0)
                     + (IF Truthy(explanation) THEN 1 ELSE 0)]

\* Router._query_single_llm after its to_thread call settled with outcome o
query_single_llm(o) ==
    IF o.kind = "raise" THEN [valid |-> FALSE, response |-> NoneVal]
    ELSE IF o.value.kind # "dict" THEN [valid |-> FALSE, response |-> NoneVal]
    ELSE [valid |-> TRUE, response |-> o.value]

\* counters that leave out the arbitrations both backends failed
update_ensemble_stats_wins_only(stats, winner) ==
    LET st == [stats EXCEPT !.total_commands = @ + 1]
    IN  IF winner = "primary" THEN [st EXCEPT !.primary_wins = @ + 1]
        ELSE IF winner = "secondary" THEN [st EXCEPT !.secondary_wins = @ + 1]
        ELSE st

\* Router._update_ensemble_stats
update_ensemble_stats(stats, winner) ==
    LET st == [stats EXCEPT !.total_commands = @ + 1]
    IN  IF winner = "primary" THEN [st EXCEPT !.primary_wins = @ + 1]
        ELSE IF winner = "secondary" THEN [st EXCEPT !.secondary_wins = @ + 1]
        ELSE IF winner = "none" THEN [st EXCEPT !.both_failed = @ + 1]
        ELSE st

SummaryEvery == 10

\* Router._log_ensemble_stats_if_needed: the records it logs, and the stats after
log_ensemble_stats_if_needed(stats) ==
    IF stats.total_commands > 0
       /\ stats.total_commands - stats.last_logged >= SummaryEvery
    THEN [records |-> <<[event |-> "llm.ensemble.summary",
                         total_commands |-> stats.total_commands]>>,
          stats |-> [stats EXCEPT !.last_logged = stats.total_commands]]
    ELSE [records |-> <<>>, stats |-> stats]

----------------------------------------------------------------------------
(* router.py: Router.dispatch up to the simulation layer *)

TXT_CMD_MAP ==
    [pwd |-> "pwd.txt", ls |-> "ls.txt", df |-> "df.txt", ps |-> "ps.txt",
     busybox |-> "busybox.txt"]

\* mapped.rsplit(".", 1)[0]
Stem(mapped) ==
    LET dots == Positions(mapped, {"."})
    IN  IF dots = {} THEN mapped
        ELSE SubSeq(mapped, 1, (CHOOSE i \in dots : \A j \in dots : j <= i) - 1)

NotFound(cmd) == "sh: " \o cmd \o ": command not found"

\* (text[: self.max_output], len(text.encode()) > self.max_output)
Clipped(layer, text, s) ==
    [kind |-> "return", layer |-> layer, full |-> text,
     out |-> Prefix(text, max_output), truncated |-> ByteLen(text) > max_output,
     s |-> s]

\* (text, False)
Verbatim(layer, text, s) ==
    [kind |-> "return", layer |-> layer, full |-> text, out |-> text,
     truncated |-> FALSE, s |-> s]

Raised(layer, s) ==
    [kind |-> "raise", layer |-> layer, full |-> "", out |-> "",
     truncated |-> FALSE, s |-> s]

Simulate(s) ==
    [kind |-> "simulate", layer |-> "simulation", full |-> "", out |-> "",
     truncated |-> FALSE, s |-> s]

\* Router._read_txt_file
read_txt_file(dep, layer, p, s) ==
    LET f == TxtFile(dep, OsPath(p.path))
    IN  IF f.state = "text" THEN Clipped(layer, f.text, s)
        ELSE Verbatim(layer, "", s)

StrippedLine(line) == Strip(line)
Argv(line) == Tokenize(StrippedLine(line))
CmdOf(line) == LET argv == Argv(line) IN IF argv # <<>> THEN argv[1] ELSE ""

\* the static corpus with the backends asked before the asset named by the
\* literal token is looked up
route_static_backend_first(dep, rmode, s, cmd) ==
    IF cmd \in DOMAIN TXT_CMD_MAP
    THEN LET p == get_txtcmd_path(dep, s.scenario_id, Stem(TXT_CMD_MAP[cmd]))
         IN  IF p.kind = "path" THEN read_txt_file(dep, "mapped", p, s)
             ELSE Verbatim("mapped", NotFound(cmd), s)
    ELSE IF rmode \in {"ensemble", "single"} THEN Simulate(s)
    ELSE LET p == get_txtcmd_path(dep, s.scenario_id, cmd)
         IN  IF p.kind = "path" THEN read_txt_file(dep, "literal", p, s)
             ELSE Verbatim("none", NotFound(cmd), s)

\* the static corpus with a mapped command without an asset handed on to the
\* backends
route_static_mapped_simulated(dep, rmode, s, cmd) ==
    LET stem == IF cmd \in DOMAIN TXT_CMD_MAP THEN Stem(TXT_CMD_MAP[cmd]) ELSE cmd
        p    == get_txtcmd_path(dep, s.scenario_id, stem)
    IN  IF p.kind = "path"
        THEN read_txt_file(dep, IF cmd \in DOMAIN TXT_CMD_MAP THEN "mapped" ELSE "literal",
                           p, s)
        ELSE IF rmode \in {"ensemble", "single"} THEN Simulate(s)
        ELSE Verbatim("none", NotFound(cmd), s)

\* the static corpus and what follows it (dispatch after _handle_builtin
\* returned None)
route_static(dep, rmode, s, cmd) ==
    IF cmd \in DOMAIN TXT_CMD_MAP
    THEN LET p == get_txtcmd_path(dep, s.scenario_id, Stem(TXT_CMD_MAP[cmd]))
         IN  IF p.kind = "path" THEN read_txt_file(dep, "mapped", p, s)
             ELSE Verbatim("mapped", NotFound(cmd), s)
    ELSE LET p == get_txtcmd_path(dep, s.scenario_id, cmd)
         IN  IF p.kind = "path" THEN read_txt_file(dep, "literal", p, s)
             ELSE IF rmode \in {"ensemble", "single"} THEN Simulate(s)
             ELSE Verbatim("none", NotFound(cmd), s)

\* the canned text of the default scenario, whatever the scenario of the session
route_cat_default_only(dep, s, name) ==
    LET p == get_txtcmd_path(dep, "default", name)
    IN  IF p.kind = "path" THEN read_txt_file(dep, "cat", p, s)
        ELSE Verbatim("cat", "", s)

\* the canned text of cat /etc/passwd and cat /etc/shadow
route_cat(dep, s, name) ==
    LET p == get_txtcmd_path(dep, s.scenario_id, name)
    IN  IF p.kind = "path" THEN read_txt_file(dep, "cat", p, s)
        ELSE Verbatim("cat", "", s)

\* Router.dispatch after _handle_builtin: its output, or the static corpus
route_builtin(dep, rmode, s, cmd, builtin) ==
    IF builtin.kind = "raise" THEN Raised("builtin", builtin.s)
    ELSE IF builtin.kind = "out"
    THEN Clipped("builtin", builtin.out, builtin.s)
    ELSE route_static(dep, rmode, builtin.s, cmd)

\* Router.dispatch from the identity builtins on, for a tokenized line
route_argv(dep, rmode, s, line, argv, cmd) ==
    IF line = "" THEN Verbatim("empty", "", s)
    ELSE IF cmd = "id" THEN Clipped("identity", id_run(s), s)
    ELSE IF cmd = "whoami" THEN Clipped("identity", whoami_run(s), s)
    ELSE IF cmd = "history" THEN Clipped("identity", history_run(s), s)
    ELSE IF cmd = "cat" /\ Len(argv) >= 2 /\ argv[2] \in {"/etc/passwd", "etc/passwd"}
    THEN route_cat(dep, s, "etc_passwd")
    ELSE IF cmd = "cat" /\ Len(argv) >= 2 /\ argv[2] \in {"/etc/shadow", "etc/shadow"}
    THEN route_cat(dep, s, "etc_shadow")
    ELSE route_builtin(dep, rmode, s, cmd, handle_builtin(dep, s, argv))

\* cmd = argv[0] if argv else ""
route_tokens(dep, rmode, s, line, argv) ==
    route_argv(dep, rmode, s, line, argv, IF argv # <<>> THEN argv[1] ELSE "")

\* argv = shlex.split(line), or line.split() when that raises
route_line(dep, rmode, s, line) ==
    route_tokens(dep, rmode, s, line, Tokenize(line))

\* Router.dispatch: what it returns or raises without a backend, or that it
\* goes on to the simulation layer
route(dep, rmode, s, line0) ==
    route_line(dep, rmode, s, Strip(line0))

----------------------------------------------------------------------------
(* The environment: what a client sends and how the router is configured *)

\* the lines dispatched
Lines ==
    { "", "   ", "id", "whoami", "history", "pwd",
      "cd", "cd ./logs", "cd ../../bin", "cd ..",
      "cd /home/user/logs/", "cd /home/../home/user//bin/.", "cd /etc",
      "cd README.txt", "cd \"logs", "cd ' logs '", "cd 'no pe'", "cd " \o LongToken,
      "ls", "ls -la ../logs", "ls /etc",
      "cat /etc/passwd", "cat /etc/shadow", "cat notes.txt",
      "ps", "df", "uname -a", "big", "wide", "broken",
      "netstat -an", LongToken }

\* the lines the caller records in the history
RecordedLines == {"", "netstat -an"}

Modes == {"none", "single", "ensemble"}
Usernames == {"", "alice"}

\* the installations run: the assets on disk, the backends the Router is
\* given and the name the session logged in with
Config(dep, rmode, user) == [deployment |-> dep, mode |-> rmode, username |-> user]
Configs ==
    { Config("std", "none", "alice"), Config("std", "single", ""),
      Config("std", "ensemble", "alice"), Config("nofs", "none", ""),
      Config("nofs", "single", "alice"), Config("badfs", "none", "") }
Clients == {"primary", "secondary"}

ZeroStats ==
    [total_commands |-> 0, primary_wins |-> 0, secondary_wins |-> 0,
     both_failed |-> 0, last_logged |-> 0]

NoCall == [kind |-> "nocall"]
\* a backend call: idle, pending, or done with the outcome of simulate_command
\* and the result _query_single_llm made of it
IdleSlot ==
    [state |-> "idle", outcome |-> NoCall,
     result |-> [valid |-> FALSE, response |-> NoneVal]]
IdleSlots == [c \in Clients |-> IdleSlot]
NoPending == [line |-> "", cmd |-> ""]

\* the observation of a dispatch: how it ended ("returned", "raised" or
\* "cancelled"), what it returned, the layer that resolved it, the session's
\* cwd before it and what the backends did
Observation(line, outcome, r, before, backend) ==
    [line |-> line, outcome |-> outcome, out |-> r.out, truncated |-> r.truncated,
     full |-> r.full, layer |-> r.layer, cwd_before |-> before, backend |-> backend]

NoBackend == [c \in Clients |-> NoCall]

Init ==
    /\ cwd = ROOT_FS_PATH
    /\ \E c \in Configs :
          /\ deployment = c.deployment
          /\ mode = c.mode
          /\ username = c.username
    /\ history = <<>>
    /\ scenario_id = "default"
    /\ scenario_fs = NoneVal
    /\ scenario_fs_snapshot = NoneVal
    /\ ensemble_stats = ZeroStats
    /\ pc = "idle"
    /\ pending = NoPending
    /\ slots = IdleSlots
    /\ calls = <<>>
    /\ audit = <<>>
    /\ last = Observation("", "none", Verbatim("none", "", Session), ROOT_FS_PATH, NoBackend)

\* the session fields written back
SetSession(s) ==
    /\ cwd' = s.cwd
    /\ scenario_fs' = s.scenario_fs
    /\ scenario_fs_snapshot' = s.scenario_fs_snapshot
    /\ UNCHANGED <<username, history, scenario_id>>

\* a history that takes the empty command as well
RecordCommand_any(command, cap) ==
    /\ pc = "idle"
    /\ Len(history) < cap
    /\ history' = Append(history, command)
    /\ UNCHANGED <<cwd, username, scenario_id, scenario_fs, scenario_fs_snapshot,
                   ensemble_stats, mode, deployment, pc, pending, slots, calls,
                   audit, last>>

\* Session.record_command
RecordCommand(command, cap) ==
    /\ pc = "idle"
    /\ Len(history) < cap
    /\ history' = IF command # "" THEN Append(history, command) ELSE history
    /\ UNCHANGED <<cwd, username, scenario_id, scenario_fs, scenario_fs_snapshot,
                   ensemble_stats, mode, deployment, pc, pending, slots, calls,
                   audit, last>>

\* the end of a dispatch that route resolved with r
Resolved(line, r) ==
    /\ r.kind # "simulate"
    /\ SetSession(r.s)
    /\ last' = Observation(line, IF r.kind = "raise" THEN "raised" ELSE "returned",
                           r, cwd, NoBackend)

\* Router.dispatch, for a line resolved without a backend
DispatchLocal(line) ==
    /\ pc = "idle"
    /\ Resolved(line, route(deployment, mode, Session, line))
    /\ calls' = <<>>
    /\ audit' = <<>>
    /\ UNCHANGED <<ensemble_stats, mode, deployment, pc, pending, slots>>

\* the arguments of a simulate_command call
Call(client, line, fs, hist) ==
    [client |-> client, command |-> line, fs |-> fs, bash_history |-> hist]

\* a dispatch that has returned nothing: it awaits its backends, or was
\* cancelled there
NoResult(s) ==
    [kind |-> "none", layer |-> "simulation", full |-> "", out |-> "",
     truncated |-> FALSE, s |-> s]

\* the simulation layer reached with r: _get_fs_for_simulation, then the
\* call of each client's simulate_command
Submit(line, r, f, clients) ==
    /\ r.kind = "simulate"
    /\ SetSession(f.s)
    /\ last' = Observation(line, "pending", NoResult(f.s), cwd, NoBackend)
    /\ calls' = [i \in 1..Len(clients) |->
                    Call(clients[i], StrippedLine(line), f.fs, history)]

Simulated(line, r, clients) ==
    Submit(line, r, get_fs_for_simulation(deployment, r.s), clients)

\* Router.dispatch reaching _simulate_with_llm, up to its await of to_thread
StartSingle(line) ==
    /\ pc = "idle"
    /\ mode = "single"
    /\ Simulated(line, route(deployment, mode, Session, line), <<"primary">>)
    /\ pending' = [line |-> line, cmd |-> CmdOf(line)]
    /\ slots' = [IdleSlots EXCEPT !["primary"].state = "pending"]
    /\ pc' = "llm_wait"
    /\ audit' = <<>>
    /\ UNCHANGED <<ensemble_stats, mode, deployment>>

\* Session.log of the records in turn: written counts the writes that succeed
\* before one raises (all of them when written = Len(records))
LogResult(records, written) ==
    [raised |-> written < Len(records),
     audit |-> SubSeq(records, 1, Min(written, Len(records)))]

\* what _simulate_with_llm does once the call has settled with outcome o
simulate_with_llm(s, line0, cmd, o, written) ==
    LET line == Strip(line0)
    IN  IF o.kind = "raise"
        THEN LET lg == LogResult(<<[event |-> "llm.simulate_command", command |-> line,
                                    error |-> "simulate_command raised an exception"]>>,
                                 written)
             IN  [res |-> IF lg.raised THEN Raised("single", s)
                          ELSE Verbatim("single", NotFound(cmd), s),
                  audit |-> lg.audit]
        ELSE IF o.value.kind # "dict"
        THEN LET lg == LogResult(<<[event |-> "llm.simulate_command", command |-> line,
                                    raw_response |-> o.value.kind]>>, written)
             IN  [res |-> IF lg.raised THEN Raised("single", s)
                          ELSE Verbatim("single", NotFound(cmd), s),
                  audit |-> lg.audit]
        ELSE LET f == format_simulated_output(o.value.d)
             IN  IF f.raised THEN [res |-> Raised("single", s), audit |-> <<>>]
                 ELSE LET c  == Clipped("single", f.out, s)
                          lg == LogResult(<<[event |-> "llm.simulate_command",
                                             command |-> line, response |-> o.value.d,
                                             output |-> f.out,
                                             truncated |-> c.truncated]>>, written)
                      IN  [res |-> IF lg.raised THEN Raised("single", s) ELSE c,
                           audit |-> lg.audit]

\* the single backend's call settles and _simulate_with_llm runs to its end
SingleSettle(o, written) ==
    /\ pc = "llm_wait"
    /\ LET x == simulate_with_llm(Session, pending.line, pending.cmd, o, written)
       IN  /\ last' = Observation(pending.line,
                                  IF x.res.kind = "raise" THEN "raised" ELSE "returned",
                                  x.res, cwd, [NoBackend EXCEPT !["primary"] = o])
           /\ audit' = x.audit
    /\ pc' = "idle"
    /\ pending' = NoPending
    /\ slots' = IdleSlots
    /\ UNCHANGED <<cwd, username, history, scenario_id, scenario_fs,
                   scenario_fs_snapshot, ensemble_stats, mode, deployment, calls>>

\* Router.dispatch reaching _simulate_with_ensemble, up to its await of
\* gather, while fewer than cap arbitrations have been counted
StartArbitration(line, cap) ==
    /\ pc = "idle"
    /\ mode = "ensemble"
    /\ ensemble_stats.total_commands < cap
    /\ Simulated(line, route(deployment, mode, Session, line),
                 <<"primary", "secondary">>)
    /\ pending' = [line |-> line, cmd |-> CmdOf(line)]
    /\ slots' = [c \in Clients |-> [IdleSlot EXCEPT !.state = "pending"]]
    /\ pc' = "ens_wait"
    /\ audit' = <<>>
    /\ UNCHANGED <<ensemble_stats, mode, deployment>>

\* Router.dispatch reaching _simulate_with_ensemble, up to its await of gather
StartEnsemble(line) == StartArbitration(line, MaxTotal)

\* one of the two _query_single_llm tasks settles
EnsembleSettle(c, o) ==
    /\ pc = "ens_wait"
    /\ slots[c].state = "pending"
    /\ slots' = [slots EXCEPT ![c] = [state |-> "done", outcome |-> o,
                                       result |-> query_single_llm(o)]]
    /\ UNCHANGED <<cwd, username, history, scenario_id, scenario_fs,
                   scenario_fs_snapshot, ensemble_stats, mode, deployment, pc,
                   pending, calls, audit, last>>

\* the selection with a strict comparison: a tie goes to the secondary
pick_winner_strict(primary_score, secondary_score) ==
    IF primary_score > secondary_score THEN "primary"
    ELSE IF secondary_score > 0 THEN "secondary"
    ELSE "none"

\* _simulate_with_ensemble picking the winner from the two scores
pick_winner(primary_score, secondary_score) ==
    IF primary_score >= secondary_score /\ primary_score > 0 THEN "primary"
    ELSE IF secondary_score > 0 THEN "secondary"
    ELSE "none"

\* an arbitration whose ties go to the backend that has won more often so far
simulate_with_ensemble_by_record(s, stats, line0, cmd, primary_result, secondary_result, written) ==
    LET line == Strip(line0)
        ps == score_response(primary_result)
        ss == score_response(secondary_result)
    IN  IF ps.raised \/ ss.raised
        THEN [res |-> Raised("ensemble", s), audit |-> <<>>, stats |-> stats]
        ELSE
        LET primary_score == ps.score
            secondary_score == ss.score
            winner == IF /\ primary_score = secondary_score
                         /\ primary_score > 0
                         /\ stats.secondary_wins > stats.primary_wins
                      THEN "secondary"
                      ELSE pick_winner(primary_score, secondary_score)
        IN  IF winner = "none"
            THEN LET st1 == update_ensemble_stats(stats, "none")
                     sm  == log_ensemble_stats_if_needed(st1)
                     recs == sm.records \o
                             <<[event |-> "llm.ensemble", command |-> line,
                                primary_score |-> primary_score,
                                secondary_score |-> secondary_score,
                                winner |-> "none"]>>
                     lg  == LogResult(recs, written)
                 IN  [res |-> IF lg.raised THEN Raised("ensemble", s)
                              ELSE Verbatim("ensemble", NotFound(cmd), s),
                      audit |-> lg.audit,
                      stats |-> IF written >= Len(sm.records) THEN sm.stats ELSE st1]
            ELSE LET response == IF winner = "primary" THEN primary_result.response.d
                                 ELSE secondary_result.response.d
                     st1 == update_ensemble_stats(stats, winner)
                     f   == format_simulated_output(response)
                 IN  IF f.raised
                     THEN [res |-> Raised("ensemble", s), audit |-> <<>>, stats |-> st1]
                     ELSE LET c  == Clipped("ensemble", f.out, s)
                              sm == log_ensemble_stats_if_needed(st1)
                              recs == <<[event |-> "llm.ensemble", command |-> line,
                                         primary_score |-> primary_score,
                                         secondary_score |-> secondary_score,
                                         winner |-> winner, output |-> f.out,
                                         truncated |-> c.truncated]>>
                                      \o sm.records
                              lg == LogResult(recs, written)
                          IN  [res |-> IF lg.raised THEN Raised("ensemble", s) ELSE c,
                               audit |-> lg.audit,
                               stats |-> IF ~lg.raised THEN sm.stats ELSE st1]

\* what _simulate_with_ensemble does once gather has both results
simulate_with_ensemble(s, stats, line0, cmd, primary_result, secondary_result, written) ==
    LET line == Strip(line0)
        ps == score_response(primary_result)
        ss == score_response(secondary_result)
    IN  IF ps.raised \/ ss.raised
        THEN [res |-> Raised("ensemble", s), audit |-> <<>>, stats |-> stats]
        ELSE
        LET primary_score == ps.score
            secondary_score == ss.score
            winner == pick_winner(primary_score, secondary_score)
        IN  IF winner = "none"
            THEN LET st1 == update_ensemble_stats(stats, "none")
                     sm  == log_ensemble_stats_if_needed(st1)
                     recs == sm.records \o
                             <<[event |-> "llm.ensemble", command |-> line,
                                primary_score |-> primary_score,
                                secondary_score |-> secondary_score,
                                winner |-> "none"]>>
                     lg  == LogResult(recs, written)
                 IN  [res |-> IF lg.raised THEN Raised("ensemble", s)
                              ELSE Verbatim("ensemble", NotFound(cmd), s),
                      audit |-> lg.audit,
                      stats |-> IF written >= Len(sm.records) THEN sm.stats ELSE st1]
            ELSE LET response == IF winner = "primary" THEN primary_result.response.d
                                 ELSE secondary_result.response.d
                     st1 == update_ensemble_stats(stats, winner)
                     f   == format_simulated_output(response)
                 IN  IF f.raised
                     THEN [res |-> Raised("ensemble", s), audit |-> <<>>, stats |-> st1]
                     ELSE LET c  == Clipped("ensemble", f.out, s)
                              sm == log_ensemble_stats_if_needed(st1)
                              recs == <<[event |-> "llm.ensemble", command |-> line,
                                         primary_score |-> primary_score,
                                         secondary_score |-> secondary_score,
                                         winner |-> winner, output |-> f.out,
                                         truncated |-> c.truncated]>>
                                      \o sm.records
                              lg == LogResult(recs, written)
                          IN  [res |-> IF lg.raised THEN Raised("ensemble", s) ELSE c,
                               audit |-> lg.audit,
                               stats |-> IF ~lg.raised THEN sm.stats ELSE st1]

\* what each backend call of the dispatch in progress came to
Outcomes == [c \in Clients |-> slots[c].outcome]

\* an arbitration that goes on as soon as one of the two calls has settled
EnsembleFinish_first_completed(written) ==
    /\ pc = "ens_wait"
    /\ \E c \in Clients : slots[c].state = "done"
    /\ LET x == simulate_with_ensemble(Session, ensemble_stats, pending.line, pending.cmd,
                                       slots["primary"].result, slots["secondary"].result,
                                       written)
       IN  /\ last' = Observation(pending.line,
                                  IF x.res.kind = "raise" THEN "raised" ELSE "returned",
                                  x.res, cwd, Outcomes)
           /\ audit' = x.audit
           /\ ensemble_stats' = x.stats
    /\ pc' = "idle"
    /\ pending' = NoPending
    /\ slots' = IdleSlots
    /\ UNCHANGED <<cwd, username, history, scenario_id, scenario_fs,
                   scenario_fs_snapshot, mode, deployment, calls>>

\* gather has returned both results and _simulate_with_ensemble runs to its end
EnsembleFinish(written) ==
    /\ pc = "ens_wait"
    /\ \A c \in Clients : slots[c].state = "done"
    /\ LET x == simulate_with_ensemble(Session, ensemble_stats, pending.line, pending.cmd,
                                       slots["primary"].result, slots["secondary"].result,
                                       written)
       IN  /\ last' = Observation(pending.line,
                                  IF x.res.kind = "raise" THEN "raised" ELSE "returned",
                                  x.res, cwd, Outcomes)
           /\ audit' = x.audit
           /\ ensemble_stats' = x.stats
    /\ pc' = "idle"
    /\ pending' = NoPending
    /\ slots' = IdleSlots
    /\ UNCHANGED <<cwd, username, history, scenario_id, scenario_fs,
                   scenario_fs_snapshot, mode, deployment, calls>>

\* the task running dispatch is cancelled while it awaits the backends:
\* CancelledError is re-raised out of dispatch
Cancel ==
    /\ pc \in {"llm_wait", "ens_wait"}
    /\ last' = Observation(pending.line, "cancelled", NoResult(Session), cwd, Outcomes)
    /\ pc' = "idle"
    /\ pending' = NoPending
    /\ slots' = IdleSlots
    /\ UNCHANGED <<cwd, username, history, scenario_id, scenario_fs,
                   scenario_fs_snapshot, ensemble_stats, mode, deployment, calls, audit>>

Next ==
    \/ \E command \in RecordedLines : RecordCommand(command, MaxHist)
    \/ \E line \in Lines : DispatchLocal(line)
    \/ \E line \in Lines : StartSingle(line)
    \/ \E o \in BackendOutcomes, written \in 0..1 : SingleSettle(o, written)
    \/ \E line \in Lines : StartEnsemble(line)
    \/ \E c \in Clients, o \in EnsembleOutcomes : EnsembleSettle(c, o)
    \/ \E written \in 0..2 : EnsembleFinish(written)
    \/ Cancel

Spec == Init /\ [][Next]_vars

----------------------------------------------------------------------------
(* The arbitrations of one router, followed past its summary of statistics *)

\* the arbitrations a router is followed for
ArbTotal == 11

\* the line arbitrated
ArbLines == {"netstat -an"}

\* what the backends of an arbitration return: no dict, dicts of scores 10,
\* 22 and 24 (the last longer than max_output), and a dict whose stdout is
\* no str
ArbReturns ==
    { NotADict,
      PyDict([stdout |-> PyStr(""), stderr |-> PyStr("err"), exit_code |-> PyInt("1")]),
      PyDict([stdout |-> PyStr("hi"), stderr |-> PyStr(""), exit_code |-> PyInt("0")]),
      PyDict([stdout |-> PyStr(BigText), stderr |-> PyStr("warn"),
              exit_code |-> PyInt("0"), explanation |-> PyStr("listing")]),
      PyDict([stdout |-> PyInt("5"), stderr |-> PyStr("")]) }

\* the outcomes of the calls of an arbitration
ArbOutcomes ==
    {simulate_command(raw) : raw \in RawGenerations} \cup {Returns(v) : v \in ArbReturns}

\* a router in ensemble mode over the standard assets
ArbInit ==
    /\ Init
    /\ deployment = "std"
    /\ mode = "ensemble"

ArbNext ==
    \/ \E line \in ArbLines : StartArbitration(line, ArbTotal)
    \/ \E c \in Clients, o \in ArbOutcomes : EnsembleSettle(c, o)
    \/ \E written \in 0..2 : EnsembleFinish(written)
    \/ Cancel

ArbSpec == ArbInit /\ [][ArbNext]_vars

----------------------------------------------------------------------------
(* A session whose scenario is changed between its commands *)

\* a change of scenario that keeps the filesystem the session has cached
SetScenario_keeps_cache(id) ==
    /\ pc = "idle"
    /\ scenario_id' = (IF id # "" THEN id ELSE "default")
    /\ last' = Observation("", "none", Verbatim("none", "", Session), cwd, NoBackend)
    /\ UNCHANGED <<cwd, username, history, scenario_fs, scenario_fs_snapshot,
                   ensemble_stats, mode, deployment, pc, pending, slots, calls, audit>>

\* Session.set_scenario
SetScenario(id) ==
    /\ pc = "idle"
    /\ scenario_id' = (IF id # "" THEN id ELSE "default")
    /\ scenario_fs' = NoneVal
    /\ scenario_fs_snapshot' = NoneVal
    /\ last' = Observation("", "none",
                           Verbatim("none", "", [Session EXCEPT
                               !.scenario_id = (IF id # "" THEN id ELSE "default"),
                               !.scenario_fs = NoneVal,
                               !.scenario_fs_snapshot = NoneVal]),
                           cwd, NoBackend)
    /\ UNCHANGED <<cwd, username, history, ensemble_stats, mode, deployment, pc,
                   pending, slots, calls, audit>>

\* the lines dispatched: listings that succeed and fail, cd into directories
\* of either tree, mapped and unmapped commands, the two cat cases
ScenLines ==
    { "ls", "ls -la", "ls /", "ls /etc", "ls /home", "ls nope", "ls -l README.txt",
      "ls logs", "ls data", "ls " \o LongToken,
      "cd", "cd logs", "cd data", "pwd",
      "ps", "df", "uname -a", "netstat -an",
      "cat /etc/passwd", "cat /etc/shadow", "cat etc/passwd" }

\* a router without backends or with one, over the standard assets or over
\* assets without fs.json
ScenInit ==
    /\ Init
    /\ mode \in {"none", "single"}
    /\ deployment \in {"std", "nofs"}

ScenNext ==
    \/ \E id \in {"", "alt", "ghost"} : SetScenario(id)
    \/ \E line \in ScenLines : DispatchLocal(line)
    \/ \E line \in ScenLines : StartSingle(line)
    \/ \E o \in {simulate_command(raw) : raw \in RawGenerations}, written \in 0..1 :
          SingleSettle(o, written)

ScenSpec == ScenInit /\ [][ScenNext]_vars

----------------------------------------------------------------------------
(* fs_snapshot.py on its own: snapshots of small trees, and lookups in them *)

MaxKids == 2

\* the trees a snapshot is built from: a root directory with up to MaxKids
\* children, among them files, directories with and without children of
\* their own, children without a name, and children of one name; and roots
\* that are no directory
VfsTrees ==
    LET leaves == { File("a", 1), File("b", 2), [type |-> "file", size |-> 3],
                    Dir("b", <<>>), [type |-> "dir", name |-> "c"] }
        mid    == { Dir("a", <<>>) } \cup { Dir("a", <<l>>) : l \in leaves }
        kids   == UNION { [1..n -> leaves \cup mid] : n \in 0..MaxKids }
    IN  { Dir("user", k) : k \in kids }
        \cup { File("user", 7), [name |-> "user", children |-> <<File("a", 1)>>] }

\* FileSystemSnapshot(root)
VfsInit ==
    /\ cwd = ROOT_FS_PATH
    /\ deployment = "std"
    /\ mode = "none"
    /\ username = ""
    /\ history = <<>>
    /\ scenario_id = "default"
    /\ \E tree \in VfsTrees :
          /\ scenario_fs = [kind |-> "dict", node |-> tree]
          /\ scenario_fs_snapshot = FileSystemSnapshot(tree)
    /\ ensemble_stats = ZeroStats
    /\ pc = "idle"
    /\ pending = NoPending
    /\ slots = IdleSlots
    /\ calls = <<>>
    /\ audit = <<>>
    /\ last = [op |-> "built", rel_path |-> <<>>, result |-> NoneVal]

\* snapshot.get_node(rel_path)
VfsGetNode(rel_path) ==
    /\ last' = [op |-> "get_node", rel_path |-> rel_path,
                result |-> get_node(scenario_fs_snapshot, rel_path)]
    /\ UNCHANGED <<cwd, username, history, scenario_id, scenario_fs,
                   scenario_fs_snapshot, ensemble_stats, mode, deployment, pc,
                   pending, slots, calls, audit>>

\* snapshot.list_dir(rel_path)
VfsListDir(rel_path) ==
    /\ last' = [op |-> "list_dir", rel_path |-> rel_path,
                result |-> list_dir(scenario_fs_snapshot, rel_path)]
    /\ UNCHANGED <<cwd, username, history, scenario_id, scenario_fs,
                   scenario_fs_snapshot, ensemble_stats, mode, deployment, pc,
                   pending, slots, calls, audit>>

VfsNext ==
    \E rel_path \in { <<>>, <<"a">>, <<"b">>, <<"c">>, <<"a", "a">>, <<"a", "b">>,
                       <<"a", "c">>, <<"b", "a">>, <<"">>, <<"a", "">>, <<"user">> } :
        \/ VfsGetNode(rel_path)
        \/ VfsListDir(rel_path)

VfsSpec == VfsInit /\ [][VfsNext]_vars

----------------------------------------------------------------------------
(* A shell session as server.py drives it: lines recorded, lines dispatched *)

HistLen == 2

\* the session after login, under a name that is empty, short or long, and
\* the router without a backend or with one
HistInit ==
    /\ cwd = ROOT_FS_PATH
    /\ deployment = "std"
    /\ \E c \in { Config("std", "none", ""), Config("std", "single", "alice"),
                   Config("std", "single", LongToken) } :
          /\ mode = c.mode
          /\ username = c.username
    /\ history = <<>>
    /\ scenario_id = "default"
    /\ scenario_fs = NoneVal
    /\ scenario_fs_snapshot = NoneVal
    /\ ensemble_stats = ZeroStats
    /\ pc = "idle"
    /\ pending = NoPending
    /\ slots = IdleSlots
    /\ calls = <<>>
    /\ audit = <<>>
    /\ last = Observation("", "none", Verbatim("none", "", Session), ROOT_FS_PATH, NoBackend)

HistNext ==
    \/ \E command \in {"", "ls", "pwd", "history", LongToken} :
          RecordCommand(command, HistLen)
    \/ \E line \in {"history", "history -c", "id", "whoami", "cd logs", "netstat -an"} :
          \/ DispatchLocal(line)
          \/ StartSingle(line)
    \/ \E o \in BackendOutcomes, written \in 0..1 : SingleSettle(o, written)
    \/ Cancel

HistSpec == HistInit /\ [][HistNext]_vars

----------------------------------------------------------------------------
(* The listings of a session that moves about its filesystem *)

\* the path arguments given to ls: none, relative, absolute, of directories
\* with and without children, of a file, of nothing, and outside the root
LsPaths ==
    { "", ".", "bin", "logs", "logs/app", "README.txt", "nope", "..", "../logs",
      "/home/user", "/home/user/logs/", "/etc" }

\* the lines that list path p: bare, with flags before it, after it and
\* around it, and with a second argument behind it
LsForms(p) ==
    { "ls " \o p, "ls -la " \o p, "ls " \o p \o " -l", "ls -l " \o p \o " --all" }
    \cup (IF p # "" THEN {"ls -a " \o p \o " bin"} ELSE {})

\* the lines dispatched: the listings, and the cd lines that move the session
LsLines ==
    UNION {LsForms(p) : p \in LsPaths}
    \cup {"cd", "cd logs", "cd bin", "cd /home/user/logs/app"}

\* a router without backends, over the standard assets or over assets
\* without fs.json
LsInit ==
    /\ Init
    /\ mode = "none"
    /\ deployment \in {"std", "nofs"}

LsNext == \E line \in LsLines : DispatchLocal(line)

LsSpec == LsInit /\ [][LsNext]_vars

----------------------------------------------------------------------------
(* session.py: Session.log and Session.write_tty called by the tasks of      *)
(* several connections. In this specification pc gives each task's position, *)
(* pending the holder of each lock ("" when free), audit the chunks written  *)
(* to the events file and last the chunks written to each transcript         *)

MaxRecords == 2

\* the tasks that log: two on behalf of session A, one of session B
Tasks == {"a1", "a2", "b1"}
SessionOf(t) == IF t = "b1" THEN "B" ELSE "A"

\* the lock an append takes: _EVENT_LOCK for the events file, the _tty_lock
\* of the task's session for its transcript
LockOf(t, file) == IF file = "events" THEN "_EVENT_LOCK" ELSE "_tty_lock:" \o SessionOf(t)

\* the chunks the file holds that task t appends to
FileOf(t, file) == IF file = "events" THEN audit ELSE last[SessionOf(t)]

LockInit ==
    /\ cwd = ROOT_FS_PATH
    /\ deployment = "std"
    /\ mode = "none"
    /\ username = ""
    /\ history = <<>>
    /\ scenario_id = "default"
    /\ scenario_fs = NoneVal
    /\ scenario_fs_snapshot = NoneVal
    /\ ensemble_stats = ZeroStats
    /\ slots = IdleSlots
    /\ calls = <<>>
    /\ pc = [t \in Tasks |-> [at |-> "idle", file |-> ""]]
    /\ pending = [l \in {"_EVENT_LOCK", "_tty_lock:A", "_tty_lock:B"} |-> ""]
    /\ audit = <<>>
    /\ last = [s \in {"A", "B"} |-> <<>>]

\* what an append leaves alone
LockFrame ==
    UNCHANGED <<cwd, username, history, scenario_id, scenario_fs, scenario_fs_snapshot,
                ensemble_stats, mode, deployment, slots, calls>>

\* Session.log / Session.write_tty up to `async with lock`
LogEnter(t, file) ==
    /\ pc[t].at = "idle"
    /\ Len(FileOf(t, file)) < 2 * MaxRecords
    /\ pc' = [pc EXCEPT ![t] = [at |-> "waiting", file |-> file]]
    /\ UNCHANGED <<pending, audit, last>>
    /\ LockFrame

\* an acquire that does not look at the lock
LogAcquire_unlocked(t) ==
    /\ pc[t].at = "waiting"
    /\ pending' = [pending EXCEPT ![LockOf(t, pc[t].file)] = t]
    /\ pc' = [pc EXCEPT ![t].at = "opened"]
    /\ UNCHANGED <<audit, last>>
    /\ LockFrame

\* asyncio.Lock.acquire returning: the lock was free
LogAcquire(t) ==
    /\ pc[t].at = "waiting"
    /\ pending[LockOf(t, pc[t].file)] = ""
    /\ pending' = [pending EXCEPT ![LockOf(t, pc[t].file)] = t]
    /\ pc' = [pc EXCEPT ![t].at = "opened"]
    /\ UNCHANGED <<audit, last>>
    /\ LockFrame

\* f.write(line) reaching the file: the first part of the line, then the rest
\* with its newline
LogWrite(t) ==
    /\ pc[t].at \in {"opened", "writing"}
    /\ LET chunk == [task |-> t, part |-> IF pc[t].at = "opened" THEN "head" ELSE "tail"]
       IN  IF pc[t].file = "events"
           THEN audit' = Append(audit, chunk) /\ last' = last
           ELSE last' = [last EXCEPT ![SessionOf(t)] = Append(@, chunk)] /\ audit' = audit
    /\ pc' = [pc EXCEPT ![t].at = IF pc[t].at = "opened" THEN "writing" ELSE "written"]
    /\ UNCHANGED pending
    /\ LockFrame

\* the end of `async with lock`: after the write, or after open() raised
LogRelease(t) ==
    /\ pc[t].at \in {"opened", "written"}
    /\ pending' = [pending EXCEPT ![LockOf(t, pc[t].file)] = ""]
    /\ pc' = [pc EXCEPT ![t] = [at |-> "idle", file |-> ""]]
    /\ UNCHANGED <<audit, last>>
    /\ LockFrame

\* the task is cancelled while it waits for the lock: the only await of an
\* append
LogCancel(t) ==
    /\ pc[t].at = "waiting"
    /\ pc' = [pc EXCEPT ![t] = [at |-> "idle", file |-> ""]]
    /\ UNCHANGED <<pending, audit, last>>
    /\ LockFrame

LockNext ==
    \E t \in Tasks :
        \/ \E file \in {"events", "tty"} : LogEnter(t, file)
        \/ LogAcquire(t)
        \/ LogWrite(t)
        \/ LogRelease(t)
        \/ LogCancel(t)

LockSpec == LockInit /\ [][LockNext]_vars

----------------------------------------------------------------------------
(* server.py: shell, the handler of one connection, with auth.py:            *)
(* AuthGate.run. In this specification pc is the await the handler is at,    *)
(* audit the events logged for the connection, calls the lines passed to     *)
(* Router.dispatch, last the outcome of the last dispatch and slots the      *)
(* progress of the handler; the audit log takes every record                 *)

\* AuthGate.max_attempts as the server configures it
max_attempts == 3

\* the prompts of either kind a connection is followed for
MaxPrompts == 4

\* line.rstrip("\r\n")
RStripCRLF(line) == SubSeq(line, 1, RSkip(line, {"\r", "\n"}, Len(line)))

\* what an awaited reader.readline() comes to: a str, None, an exception or,
\* under asyncio.wait_for, a timeout
Read(kind, v) == [kind |-> kind, v |-> v]

Events(names) == [i \in DOMAIN names |-> [event |-> names[i]]]

SrvInit ==
    /\ cwd = ROOT_FS_PATH
    /\ deployment = "std"
    /\ mode = "none"
    /\ username = ""
    /\ history = <<>>
    /\ scenario_id = "default"
    /\ scenario_fs = NoneVal
    /\ scenario_fs_snapshot = NoneVal
    /\ ensemble_stats = ZeroStats
    /\ pending = NoPending
    /\ calls = <<>>
    /\ audit = <<>>
    /\ pc = "new"
    /\ slots = [login_prompts |-> 0, shell_prompts |-> 0, attempts |-> 0, entered |-> "",
                auth |-> "pending", eof |-> FALSE, writer_closed |-> FALSE]
    /\ last = Observation("", "none", Verbatim("none", "", Session), ROOT_FS_PATH, NoBackend)

\* the finally of shell, after the events this step has logged: session.close
\* is logged and the writer closed
SrvClose(events, st) ==
    /\ audit' = audit \o Events(events \o <<"session.close">>)
    /\ slots' = [st EXCEPT !.writer_closed = TRUE]
    /\ pc' = "closed"

\* AuthGate.run returns False: shell logs session.close and returns, through
\* its finally
AuthFailed(events) ==
    SrvClose(events \o <<"session.close">>, [slots EXCEPT !.auth = "failed"])

\* shell from the connection to the first await of AuthGate.run; wrote: the
\* banner could be written
SrvConnect(wrote) ==
    /\ pc = "new"
    /\ IF ~wrote
       THEN SrvClose(<<"session.connect">>, slots)
       ELSE /\ audit' = audit \o Events(<<"session.connect", "auth.start", "auth.start">>)
            /\ pc' = "auth_prompt"
            /\ slots' = slots
    /\ UNCHANGED <<cwd, username, history, scenario_id, scenario_fs, scenario_fs_snapshot,
                   ensemble_stats, mode, deployment, pending, calls, last>>

\* AuthGate.run from the head of its loop to the read of the username
AuthPrompt(wrote) ==
    /\ pc = "auth_prompt"
    /\ slots.login_prompts < MaxPrompts
    /\ IF ~(slots.attempts < max_attempts)
       THEN AuthFailed(<<"auth.exhausted">>)
       ELSE IF ~wrote
       THEN AuthFailed(<<"auth.step", "auth.write_error">>)
       ELSE /\ audit' = audit \o Events(<<"auth.step">>)
            /\ slots' = [slots EXCEPT !.login_prompts = @ + 1]
            /\ pc' = "auth_user"
    /\ UNCHANGED <<cwd, username, history, scenario_id, scenario_fs, scenario_fs_snapshot,
                   ensemble_stats, mode, deployment, pending, calls, last>>

\* AuthGate.run from the username read to the read of the password
AuthUser(raw, wrote) ==
    /\ pc = "auth_user"
    /\ IF raw.kind = "timeout"
       THEN /\ audit' = audit \o Events(<<"login.timeout">>)
            /\ slots' = [slots EXCEPT !.attempts = @ + 0]
            /\ pc' = "auth_prompt"
       ELSE IF raw.kind = "error"
       THEN AuthFailed(<<"login.read_error">>)
       ELSE IF raw.kind = "none" \/ raw.v = ""
       THEN AuthFailed(<<"login.raw", "login.eof">>)
       ELSE IF ~wrote
       THEN AuthFailed(<<"login.raw", "login.prompt", "auth.step", "auth.write_error">>)
       ELSE /\ audit' = audit \o Events(<<"login.raw", "login.prompt", "auth.step">>)
            /\ slots' = [slots EXCEPT !.entered = RStripCRLF(raw.v)]
            /\ pc' = "auth_pass"
    /\ UNCHANGED <<cwd, username, history, scenario_id, scenario_fs, scenario_fs_snapshot,
                   ensemble_stats, mode, deployment, pending, calls, last>>

\* AuthGate.run from the password read to its return or to the head of its
\* loop, and shell up to its first prompt
AuthPass(raw, wrote) ==
    /\ pc = "auth_pass"
    /\ IF raw.kind = "timeout"
       THEN /\ audit' = audit \o Events(<<"login.timeout">>)
            /\ slots' = slots
            /\ pc' = "auth_prompt"
            /\ username' = username
       ELSE IF raw.kind = "error"
       THEN AuthFailed(<<"login.read_error">>) /\ username' = username
       ELSE IF raw.kind = "none" \/ raw.v = ""
       THEN AuthFailed(<<"login.raw", "login.eof">>) /\ username' = username
       ELSE IF ~wrote
       THEN AuthFailed(<<"login.raw", "login.error">>) /\ username' = username
       ELSE /\ audit' = audit \o Events(<<"login.raw", "login.attempt", "auth.success">>)
            /\ username' = (IF slots.entered # "" THEN slots.entered ELSE "guest")
            /\ slots' = [slots EXCEPT !.auth = "ok"]
            /\ pc' = "shell_prompt"
    /\ UNCHANGED <<cwd, history, scenario_id, scenario_fs, scenario_fs_snapshot,
                   ensemble_stats, mode, deployment, pending, calls, last>>

\* shell: the prompt at the head of its loop
ShellPrompt(wrote) ==
    /\ pc = "shell_prompt"
    /\ slots.shell_prompts < MaxPrompts
    /\ IF ~wrote
       THEN SrvClose(<<>>, slots)
       ELSE /\ slots' = [slots EXCEPT !.shell_prompts = @ + 1]
            /\ pc' = "shell_read"
            /\ audit' = audit
    /\ UNCHANGED <<cwd, username, history, scenario_id, scenario_fs, scenario_fs_snapshot,
                   ensemble_stats, mode, deployment, pending, calls, last>>

\* shell: a line that is neither empty nor exit/logout is dispatched, r being
\* what Router.dispatch comes to, and its output written
ShellDispatch(line, r, wrote) ==
    /\ calls' = Append(calls, line)
    /\ cwd' = r.s.cwd
    /\ scenario_fs' = r.s.scenario_fs
    /\ scenario_fs_snapshot' = r.s.scenario_fs_snapshot
    /\ last' = Observation(line, IF r.kind = "raise" THEN "raised" ELSE "returned",
                           r, cwd, NoBackend)
    /\ IF r.kind = "raise"
       THEN SrvClose(<<"command.input">>, slots)
       ELSE IF ~wrote
       THEN SrvClose(<<"command.input", "command.output">>, slots)
       ELSE /\ audit' = audit \o Events(<<"command.input", "command.output">>)
            /\ slots' = slots
            /\ pc' = "shell_prompt"

\* shell: one turn of its loop from the line read
ShellRead(raw, wrote) ==
    /\ pc = "shell_read"
    /\ LET line == RStripCRLF(raw.v)
           argv == SplitWs(line)
           cmd == IF argv # <<>> THEN argv[1] ELSE ""
           recorded == IF line # "" THEN Append(history, line) ELSE history
       IN  IF raw.kind # "str" \/ line = ""
           THEN /\ IF raw.kind = "none" THEN SrvClose(<<>>, [slots EXCEPT !.eof = TRUE])
                   ELSE IF raw.kind = "error" THEN SrvClose(<<>>, slots)
                   ELSE /\ slots' = [slots EXCEPT !.eof = @ \/ raw.v = ""]
                        /\ pc' = "shell_prompt"
                        /\ audit' = audit
                /\ UNCHANGED <<cwd, history, scenario_fs, scenario_fs_snapshot, calls, last>>
           ELSE IF cmd \in {"exit", "logout"}
           THEN /\ history' = recorded
                /\ SrvClose(<<"command.input", "command.output">>, slots)
                /\ UNCHANGED <<cwd, scenario_fs, scenario_fs_snapshot, calls, last>>
           ELSE /\ history' = recorded
                /\ ShellDispatch(line,
                       route(deployment, mode, [Session EXCEPT !.history = recorded], line),
                       wrote)
    /\ UNCHANGED <<username, scenario_id, ensemble_stats, mode, deployment, pending>>

SrvNext ==
    \/ \E wrote \in BOOLEAN : SrvConnect(wrote)
    \/ \E wrote \in BOOLEAN : AuthPrompt(wrote)
    \/ \E raw \in {Read("timeout", ""), Read("error", ""), Read("none", ""),
                   Read("str", ""), Read("str", "\r\n"), Read("str", "alice\r\n")},
          wrote \in BOOLEAN : AuthUser(raw, wrote)
    \/ \E raw \in {Read("timeout", ""), Read("error", ""), Read("none", ""),
                   Read("str", ""), Read("str", "pw\r\n")},
          wrote \in BOOLEAN : AuthPass(raw, wrote)
    \/ \E wrote \in BOOLEAN : ShellPrompt(wrote)
    \/ \E raw \in {Read("error", ""), Read("none", ""), Read("str", ""),
                   Read("str", "\r\n"), Read("str", "pwd\r\n"), Read("str", "cd logs\r\n"),
                   Read("str", "broken\r\n"), Read("str", "exit\r\n"),
                   Read("str", "logout now\r\n")},
          wrote \in BOOLEAN : ShellRead(raw, wrote)

SrvSpec == SrvInit /\ [][SrvNext]_vars

----------------------------------------------------------------------------
(* A session whose command tokens are paths *)

\* a router without backend over the standard assets
TravInit ==
    /\ Init
    /\ mode = "none"
    /\ deployment = "std"

TravNext ==
    \/ \E id \in {"", "alt"} : SetScenario(id)
    \/ \E line \in {"ps", "uname -a", "big", "nope", "pwd", "ls", "cd logs", "cd bin", "cd",
                    "./uname", "../txtcmds/uname", "sub/uname", "../../alt/txtcmds/ps",
                    "../../../notes", "/srv/autopot/notes", "/srv/autopot/nothing",
                    "../../default/txtcmds/id extra"} : DispatchLocal(line)

TravSpec == TravInit /\ [][TravNext]_vars

----------------------------------------------------------------------------
(* Properties *)

\* a dispatch has ended by returning its pair
Returned == last.outcome = "returned"

\* the first token of the line last dispatched
LastCmd == CmdOf(last.line)

\* C1: in every reachable state the session's cwd lies under the fixed root:
\* split at "/", it is the empty string followed by "home", "user" and the
\* segments below them. cwd is assigned once per cd, so no state in between
\* exists either.
CwdInsideRoot ==
    LET parts == Split(cwd, "/")
    IN  /\ Len(parts) >= 1 + Len(BASE_FS_PATH_PARTS)
        /\ parts[1] = ""
        /\ SubSeq(parts, 2, 1 + Len(BASE_FS_PATH_PARTS)) = BASE_FS_PATH_PARTS

\* cd .. dispatched at the root with a snapshot loaded: accepted, and cwd is
\* still the root
CwdInsideRoot_witness ==
    /\ Returned
    /\ last.line = "cd .."
    /\ last.layer = "builtin"
    /\ last.cwd_before = ROOT_FS_PATH
    /\ last.out = ""
    /\ cwd = ROOT_FS_PATH

\* C2: no dispatch ends by an exception escaping to its caller
DispatchNeverRaises == last.outcome # "raised"

\* C3: a returned response of more than max_output bytes comes back with
\* exactly max_output bytes and truncated true; any other comes back
\* unmodified with truncated false
TruncationExact ==
    Returned =>
        IF ByteLen(last.full) > max_output
        THEN ByteLen(last.out) = max_output /\ last.truncated
        ELSE last.out = last.full /\ ~last.truncated

\* C4: every returned string is at most max_output bytes long
OutputWithinMaxOutput == Returned => ByteLen(last.out) <= max_output

\* the single backend's call raised or returned something that is no dict
PrimaryFailed ==
    \/ last.backend["primary"].kind = "raise"
    \/ /\ last.backend["primary"].kind = "value"
       /\ last.backend["primary"].value.kind # "dict"

\* C5: in single-backend mode, a dispatch whose backend raised or returned a
\* non-dict returns exactly ("sh: <cmd>: command not found", False)
SingleFailureIsNotFound ==
    (last.layer = "single" /\ last.outcome \in {"returned", "raised"} /\ PrimaryFailed)
        => /\ Returned
           /\ last.out = NotFound(LastCmd)
           /\ ~last.truncated

\* what simulate_command comes to when the model's output is no JSON
Unparsable == simulate_command([kind |-> "text"])

\* C6: a backend whose model output cannot be parsed counts as failed: alone,
\* or beside a backend that failed too, the dispatch returns the command not
\* found line, and no output is the parse-error marker
ParseFailureIsBackendFailure ==
    /\ (Returned /\ last.layer = "single" /\ last.backend["primary"] = Unparsable)
           => last.out = NotFound(LastCmd)
    /\ (Returned /\ last.layer = "ensemble" /\ last.backend["primary"] = Unparsable
            /\ last.backend["secondary"] = Raises)
           => last.out = NotFound(LastCmd)
    /\ Returned => last.out # "llm-parse-error"

\* C7: a dispatch whose backend call is cut off by cancellation still ends by
\* returning: the cancellation never propagates out of dispatch
CancelledCallIsBackendFailure == last.outcome # "cancelled"

\* the layer that the chain's order gives a line in the current state: the
\* first of the layers, in order, that the line matches
ExpectedLayer(line) ==
    LET argv == Argv(line)
        cmd  == CmdOf(line)
        g    == get_fs_snapshot(deployment, Session)
    IN  IF Strip(line) = "" THEN "empty"
        ELSE IF cmd \in {"id", "whoami", "history"} THEN "identity"
        ELSE IF /\ cmd = "cat" /\ Len(argv) >= 2
                /\ argv[2] \in {"/etc/passwd", "etc/passwd", "/etc/shadow", "etc/shadow"}
        THEN "cat"
        ELSE IF cmd = "pwd" THEN "builtin"
        ELSE IF cmd \in {"cd", "ls"} /\ (g.raised \/ g.snap.kind = "snapshot")
        THEN "builtin"
        ELSE IF cmd \in DOMAIN TXT_CMD_MAP THEN "mapped"
        ELSE IF get_txtcmd_path(deployment, scenario_id, cmd).kind = "path"
        THEN "literal"
        ELSE IF mode = "ensemble" THEN "ensemble"
        ELSE IF mode = "single" THEN "single"
        ELSE "none"

\* a step that begins a dispatch, judged by the layer e its line should get:
\* a backend layer means the calls are made and awaited, any other layer means
\* the dispatch ends in that layer with no call made
StepFollowsOrder(e) ==
    IF e \in {"ensemble", "single"}
    THEN /\ last'.outcome = "pending"
         /\ pc' = (IF e = "single" THEN "llm_wait" ELSE "ens_wait")
         /\ Len(calls') = (IF e = "single" THEN 1 ELSE 2)
    ELSE /\ last'.outcome \in {"returned", "raised"}
         /\ last'.layer = e
         /\ pc' = "idle"
         /\ calls' = <<>>

\* C8: the first matching layer of the chain (identity builtins, cat of
\* passwd/shadow, pwd/cd/ls, mapped asset, literal asset, ensemble, single
\* backend, command not found) resolves every line, and no backend is called
\* for a line that a layer before the backends resolves
FirstMatchingLayerWins ==
    [][(pc = "idle" /\ last' # last) => StepFollowsOrder(ExpectedLayer(last'.line))]_vars

\* a line with a canned asset dispatched with a backend configured: served
\* from the asset, no call made
FirstMatchingLayerWins_witness ==
    /\ Returned
    /\ mode = "single"
    /\ last.line = "uname -a"
    /\ last.layer = "literal"
    /\ last.out = "Linux autopot 5.4.0 x86_64"
    /\ calls = <<>>

\* the argument of the cd last dispatched, as tokenized
CdArg == LET argv == Argv(last.line) IN IF Len(argv) > 1 THEN argv[2] ELSE ROOT_FS_PATH

\* the cd last dispatched was answered by _handle_cd from a snapshot
CdHandled == Returned /\ LastCmd = "cd" /\ last.layer = "builtin"

\* the target of the cd last dispatched, resolved from the cwd it started in
CdTarget == resolve_target_parts([Session EXCEPT !.cwd = last.cwd_before], CdArg)

\* the target of the cd last dispatched names a directory of the snapshot
CdTargetIsDir ==
    /\ CdTarget.ok
    /\ IsNode(get_node(scenario_fs_snapshot, RelOf(CdTarget.parts)))
    /\ IsDir(get_node(scenario_fs_snapshot, RelOf(CdTarget.parts)))

\* C9 as stated: a cd whose target cannot be resolved, is absent or is a file
\* returns exactly the message naming its argument, not truncated, and leaves
\* cwd as it was
CdFailureExact ==
    (CdHandled /\ ~CdTargetIsDir)
        => /\ last.out = CdError(CdArg)
           /\ ~last.truncated
           /\ cwd = last.cwd_before

\* C9 amended: with a snapshot loaded, a cd whose target cannot be resolved,
\* is absent or is a file returns the message naming the tokenized argument,
\* clipped to its first max_output characters, truncated being whether the
\* message is longer than max_output bytes; cwd stays as it was
CdFailureClipped ==
    (CdHandled /\ ~CdTargetIsDir)
        => /\ last.full = CdError(CdArg)
           /\ last.out = Prefix(CdError(CdArg), max_output)
           /\ last.truncated = (ByteLen(CdError(CdArg)) > max_output)
           /\ cwd = last.cwd_before

\* a cd to a name longer than max_output: refused, the message clipped
CdFailureClipped_witness ==
    /\ CdHandled
    /\ last.line = "cd " \o LongToken
    /\ Len(last.out) = max_output
    /\ last.truncated
    /\ cwd = last.cwd_before

\* the path has no empty, "." or ".." segment after its leading "/"
Normalized(path) ==
    LET segs == Split(path, "/")
    IN  /\ Len(segs) >= 2
        /\ segs[1] = ""
        /\ \A i \in 2..Len(segs) : segs[i] \notin {"", ".", ".."}

\* where the cds of the examples lead: from the cwd before to the cwd after
CdExamples ==
    /\ (last.line = "cd ./logs" /\ last.cwd_before = "/home/user")
           => cwd = "/home/user/logs"
    /\ (last.line = "cd ../../bin" /\ last.cwd_before = "/home/user/logs")
           => cwd = "/home/user/bin"
    /\ last.line = "cd" => cwd = "/home/user"
    /\ last.line = "cd /home/user/logs/" => cwd = "/home/user/logs"
    /\ last.line = "cd /home/../home/user//bin/." => cwd = "/home/user/bin"

\* C10: a cd whose target is a directory of the snapshot returns empty output
\* and leaves cwd the normalized absolute path of that directory (relative
\* targets from the old cwd, absolute ones whatever the old cwd, no argument
\* the root), and a pwd dispatched next returns exactly cwd
CdSuccessNormalized ==
    (CdHandled /\ CdTargetIsDir)
        => /\ last.out = ""
           /\ ~last.truncated
           /\ Normalized(cwd)
           /\ Split(cwd, "/") = <<"">> \o CdTarget.parts
           /\ IsDir(get_node(scenario_fs_snapshot, RelOf(Tail(Split(cwd, "/")))))
           /\ CdExamples
           /\ route(deployment, mode, Session, "pwd").kind = "return"
           /\ route(deployment, mode, Session, "pwd").out = cwd
           /\ ~route(deployment, mode, Session, "pwd").truncated

\* cd ../../bin dispatched in /home/user/logs: cwd is /home/user/bin
CdSuccessNormalized_witness ==
    /\ CdHandled
    /\ last.line = "cd ../../bin"
    /\ last.cwd_before = "/home/user/logs"
    /\ last.out = ""
    /\ cwd = "/home/user/bin"

RECURSIVE ClampedWalk(_, _)
\* the walk of a relative target stated on the path below the root: a name
\* goes down, ".." goes up, and ".." at the root itself stays there
ClampedWalk(segs, below) ==
    IF segs = <<>> THEN below
    ELSE LET h == Head(segs)
         IN  ClampedWalk(Tail(segs),
                 IF h \in {"", "."} THEN below
                 ELSE IF h = ".."
                 THEN (IF below = <<>> THEN below ELSE SubSeq(below, 1, Len(below) - 1))
                 ELSE Append(below, h))

\* where the relative cd last dispatched leads, below the root
CdWalk ==
    ClampedWalk(Split(Strip(CdArg), "/"),
                RelOf(Tail(Split(last.cwd_before, "/"))))

\* C11: cd .. at the root returns empty output and leaves cwd the root, and
\* every cd with a relative target ends where the walk that ignores each ".."
\* at the root ends (or, when that is no directory, where it started)
ParentOfRootIsNoOp ==
    /\ (CdHandled /\ last.line = "cd .." /\ last.cwd_before = ROOT_FS_PATH)
           => last.out = "" /\ cwd = ROOT_FS_PATH
    /\ (CdHandled /\ ~StartsWith(Strip(CdArg), "/"))
           => IF /\ IsNode(get_node(scenario_fs_snapshot, CdWalk))
                 /\ IsDir(get_node(scenario_fs_snapshot, CdWalk))
              THEN /\ last.out = ""
                   /\ Split(cwd, "/") = <<"">> \o BASE_FS_PATH_PARTS \o CdWalk
              ELSE cwd = last.cwd_before

\* cd ../../bin dispatched at the root: both ".." are ignored and cwd is
\* /home/user/bin
ParentOfRootIsNoOp_witness ==
    /\ CdHandled
    /\ last.line = "cd ../../bin"
    /\ last.cwd_before = ROOT_FS_PATH
    /\ last.out = ""
    /\ cwd = "/home/user/bin"

\* C12: cd is the only command that changes the current directory: a step
\* that changes cwd is the dispatch of a line whose first token is cd,
\* answered by the builtin
OnlyCdMovesCwd ==
    [][cwd' # cwd => (CmdOf(last'.line) = "cd" /\ last'.layer = "builtin")]_vars

\* ls of a relative target with ".." dispatched in /home/user/bin: answered,
\* and cwd is still /home/user/bin
OnlyCdMovesCwd_witness ==
    /\ Returned
    /\ last.line = "ls -la ../logs"
    /\ last.layer = "builtin"
    /\ last.cwd_before = "/home/user/bin"
    /\ cwd = "/home/user/bin"


----------------------------------------------------------------------------
(* Properties of the arbitration between two backends *)

\* the last dispatch was an arbitration that ran to its end
Arbitrated == last.layer = "ensemble" /\ last.outcome \in {"returned", "raised"}

\* the str held by field k of the response of outcome o, "" when there is none
StrField(o, k) ==
    IF o.kind = "value" /\ o.value.kind = "dict" /\ k \in DOMAIN o.value.d
       /\ o.value.d[k].t = "str"
    THEN o.value.d[k].v
    ELSE ""

\* the exit code of the response of outcome o is the int 0
ExitsZero(o) ==
    /\ "exit_code" \in DOMAIN o.value.d
    /\ o.value.d["exit_code"] = PyInt("0")

\* the score the rule of scoring gives the outcome of a backend call
RefScore(o) ==
    IF o.kind # "value" \/ o.value.kind # "dict" THEN 0
    ELSE 10 + (IF ExitsZero(o) THEN 5 ELSE 0)
            + (IF StrField(o, "stdout") # "" THEN 5 ELSE 0)
            + (IF Len(StrField(o, "stdout")) > 10 THEN 3 ELSE 0)
            + (IF StrField(o, "stderr") = "" THEN 2 ELSE 0)
            + (IF StrField(o, "explanation") # "" THEN 1 ELSE 0)

\* the text a response stands for: its stdout and stderr, one per line
RefOutput(o) ==
    IF StrField(o, "stdout") # "" /\ StrField(o, "stderr") # ""
    THEN StrField(o, "stdout") \o "\n" \o StrField(o, "stderr")
    ELSE StrField(o, "stdout") \o StrField(o, "stderr")

\* the backend the selection rule names for the last arbitration
RefWinner ==
    LET p == RefScore(last.backend["primary"])
        s == RefScore(last.backend["secondary"])
    IN  IF p >= s /\ p > 0 THEN "primary"
        ELSE IF s > 0 THEN "secondary"
        ELSE "none"

\* the audit records of the arbitration itself
EnsembleRecords == {i \in DOMAIN audit : audit[i].event = "llm.ensemble"}

OkDict == Returns(PyDict([stdout |-> PyStr("ok"), stderr |-> PyStr(""),
                          exit_code |-> PyInt("0"), explanation |-> PyStr("")]))
HiDict == Returns(PyDict([stdout |-> PyStr("hi"), stderr |-> PyStr(""),
                          exit_code |-> PyInt("0")]))
ErrDict == Returns(PyDict([stdout |-> PyStr(""), stderr |-> PyStr("err"),
                           exit_code |-> PyInt("1")]))

ScoreAsStated ==
    Arbitrated =>
        /\ \A i \in EnsembleRecords :
              /\ audit[i].primary_score = RefScore(last.backend["primary"])
              /\ audit[i].secondary_score = RefScore(last.backend["secondary"])
        /\ (last.backend["primary"] = OkDict /\ last.backend["secondary"] = ErrDict) =>
              /\ \A i \in EnsembleRecords :
                    /\ audit[i].primary_score = 22
                    /\ audit[i].secondary_score = 10
                    /\ audit[i].winner = "primary"
              /\ Returned => last.out = "ok" /\ ~last.truncated

ScoreAsStated_witness ==
    /\ Arbitrated /\ Returned
    /\ last.backend["primary"] = OkDict
    /\ last.backend["secondary"] = ErrDict
    /\ EnsembleRecords # {}
    /\ \A i \in EnsembleRecords : audit[i].primary_score = 22 /\ audit[i].secondary_score = 10
    /\ last.out = "ok"

\* the call of outcome o raised or returned no dict
Failed(o) == o.kind = "raise" \/ (o.kind = "value" /\ o.value.kind # "dict")

\* the other backend
Other(c) == IF c = "primary" THEN "secondary" ELSE "primary"

FreshArbitration ==
    simulate_with_ensemble(Session, ZeroStats, last.line, LastCmd,
                           query_single_llm(last.backend["primary"]),
                           query_single_llm(last.backend["secondary"]), 2)

\* the audit records of a summary of the statistics
SummaryRecords == {i \in DOMAIN audit : audit[i].event = "llm.ensemble.summary"}

CounterOf(winner) ==
    IF winner = "primary" THEN "primary_wins"
    ELSE IF winner = "secondary" THEN "secondary_wins"
    ELSE "both_failed"

Counters == {"total_commands", "primary_wins", "secondary_wins", "both_failed"}

\* total_commands is the sum of the three outcome counters
Balanced ==
    ensemble_stats.total_commands =
        ensemble_stats.primary_wins + ensemble_stats.secondary_wins
            + ensemble_stats.both_failed

\* the arbitration counted by this step: one more in total_commands and in
\* the counter of winner, the other counters as they were
CountedFor(winner) ==
    \A k \in Counters :
        ensemble_stats'[k] =
            ensemble_stats[k] + (IF k \in {"total_commands", CounterOf(winner)} THEN 1 ELSE 0)

\* C17: total_commands = primary_wins + secondary_wins + both_failed before
\* and after every step; no counter ever decreases; an arbitration that
\* returns adds one to total_commands and one to the counter of its outcome
\* and to no other; one that raises adds either nothing or one arbitration;
\* a cancelled dispatch leaves the counters as they were
StatsAccounting ==
    [][ /\ Balanced /\ Balanced'
        /\ \A k \in Counters : ensemble_stats'[k] >= ensemble_stats[k]
        /\ (pc = "ens_wait" /\ last'.outcome = "returned") => CountedFor(RefWinner')
        /\ (pc = "ens_wait" /\ last'.outcome = "raised") =>
              \/ ensemble_stats' = ensemble_stats
              \/ \E w \in {"primary", "secondary", "none"} : CountedFor(w)
        /\ (pc = "ens_wait" /\ last'.outcome \notin {"returned", "raised"}) =>
              ensemble_stats' = ensemble_stats
      ]_vars

StatsAccounting_witness ==
    /\ last.outcome = "cancelled"
    /\ ensemble_stats.primary_wins = 1
    /\ ensemble_stats.secondary_wins = 1
    /\ ensemble_stats.both_failed = 1
    /\ ensemble_stats.total_commands = 3

----------------------------------------------------------------------------
(* Properties of ls *)

\* the ls last dispatched was answered by _handle_ls from a snapshot
LsHandled == Returned /\ LastCmd = "ls" /\ last.layer = "builtin"

\* the first argument of the ls last dispatched that is no flag, "" if none
LsArg ==
    LET given == SelectSeq(Tail(Argv(last.line)),
                           LAMBDA a : a # "" /\ Char(a, 1) # "-")
    IN  IF given = <<>> THEN "" ELSE Head(given)

\* the target of the ls last dispatched, resolved from the cwd it started in
LsTarget == resolve_target_parts([Session EXCEPT !.cwd = last.cwd_before], LsArg)

\* the node the ls last dispatched was asked to list
LsNode == get_node(scenario_fs_snapshot, RelOf(LsTarget.parts))

\* the ls last dispatched listed a directory of the snapshot
LsOfDir == LsHandled /\ LsTarget.ok /\ IsNode(LsNode) /\ IsDir(LsNode)

\* the lines of the last output
OutLines == Split(last.out, "\n")

\* the line ls gives a directory without a size under the name given
DirLine(name) == "drwxr-xr-x   2 user user        0 Jan 01 00:00 " \o name

\* the name column of a line of ls
NameColumn(entry) == SubSeq(entry, Len(DirLine("")) + 1, Len(entry))

\* C18: the listing of a directory has the entry of "." as its first line and
\* the entry of ".." as its second, whatever the flags, for the root, for
\* directories below it and for directories without children
DotEntriesFirst ==
    LsOfDir =>
        /\ Len(OutLines) >= 2
        /\ OutLines[1] = DirLine(".")
        /\ OutLines[2] = DirLine("..")

DotEntriesFirst_witness ==
    /\ LsOfDir
    /\ last.line = "ls -l logs/app --all"
    /\ last.cwd_before = ROOT_FS_PATH
    /\ OutLines = <<DirLine("."), DirLine("..")>>

\* the observation obs carries what the dispatch result r carries
SameResult(obs, r) ==
    /\ obs.out = r.out
    /\ obs.truncated = r.truncated
    /\ obs.layer = r.layer
    /\ (obs.outcome = "returned") = (r.kind = "return")

\* C19: a dispatch of ls with flags before, after or around its path, or
\* with a second argument behind it, returns what the dispatch of ls with
\* that path alone returns from the same session
FlagsAreNoOps ==
    [][ \A p \in LsPaths :
            last'.line \in LsForms(p) =>
                SameResult(last', route(deployment, mode, Session, "ls " \o p))
      ]_vars

FlagsAreNoOps_witness ==
    /\ LsOfDir
    /\ last.line = "ls -l ../logs --all"
    /\ last.cwd_before = "/home/user/bin"
    /\ Len(OutLines) = 4

Uppercase == "ABCDEFGHIJKLMNOPQRSTUVWXYZ"
Lowercase == "abcdefghijklmnopqrstuvwxyz"

RECURSIVE Fold(_)
\* s with its capital letters made small
Fold(s) ==
    IF s = "" THEN ""
    ELSE LET c == Char(s, 1)
             at == {i \in 1..Len(Uppercase) : Char(Uppercase, i) = c}
         IN  (IF at = {} THEN c ELSE Char(Lowercase, CHOOSE i \in at : TRUE))
             \o Fold(SubSeq(s, 2, Len(s)))

\* a comes before b in alphabetical order
AlphaLess(a, b) == StrLess(Fold(a), Fold(b))

\* the names of the children of the directory last listed
LsChildNames ==
    LET listed == list_dir(scenario_fs_snapshot, RelOf(LsTarget.parts))
    IN  [i \in 1..Len(listed.items) |-> Get(listed.items[i], "name", "")]

\* the lines of the last listing, before dispatch cuts it to max_output
ListingLines == Split(last.full, "\n")

\* C20: after its first two lines the listing of a directory has one line per
\* child, each child once, in alphabetical order of the names; the names
\* listed for the root are ".", "..", "bin", "logs", "README.txt"
ChildrenAlphabetical ==
    LsOfDir =>
        /\ Len(ListingLines) = 2 + Len(LsChildNames)
        /\ \A n \in {LsChildNames[i] : i \in DOMAIN LsChildNames} :
              Cardinality({i \in 3..Len(ListingLines) : NameColumn(ListingLines[i]) = n})
                  = Cardinality({i \in DOMAIN LsChildNames : LsChildNames[i] = n})
        /\ \A i, j \in 3..Len(ListingLines) :
              i < j => ~AlphaLess(NameColumn(ListingLines[j]), NameColumn(ListingLines[i]))
        /\ (LsArg = "" /\ last.cwd_before = ROOT_FS_PATH) =>
              [i \in DOMAIN ListingLines |-> NameColumn(ListingLines[i])]
                  = <<".", "..", "bin", "logs", "README.txt">>

----------------------------------------------------------------------------
(* Properties of a session whose scenario changes *)

\* the ls last dispatched found no node to list
LsFails == LsHandled /\ (~LsTarget.ok \/ ~IsNode(LsNode))

\* the first argument of line that is no flag, "" if there is none
LsArgOf(line) ==
    LET given == SelectSeq(Tail(Argv(line)), LAMBDA a : a # "" /\ Char(a, 1) # "-")
    IN  IF given = <<>> THEN "" ELSE Head(given)

\* the target as it was typed, "." if none was
LsDisplay(arg) == IF arg # "" THEN arg ELSE "."

\* the message of an ls that found nothing under the name shown
LsMessage(shown) == "ls: cannot access '" \o shown \o "': No such file or directory"

\* the session has a snapshot to list from, and the target of this ls line is
\* outside the root or names no node of it
LsFailsFrom(line, g) ==
    /\ CmdOf(line) = "ls"
    /\ ~g.raised /\ g.snap.kind = "snapshot"
    /\ LET r == resolve_target_parts(Session, LsArgOf(line))
       IN  ~r.ok \/ ~IsNode(get_node(g.snap, RelOf(r.parts)))

\* this step is the dispatch of an ls that finds no node
FailedLsStep ==
    /\ pc = "idle"
    /\ last' # last
    /\ LsFailsFrom(last'.line, get_fs_snapshot(deployment, Session))

\* C21 as stated: a failed ls returns the message whole and changes no field
\* of the session
LsFailureExact ==
    [][ FailedLsStep =>
            /\ last'.out = LsMessage(LsDisplay(LsArgOf(last'.line)))
            /\ ~last'.truncated
            /\ UNCHANGED <<cwd, username, history, scenario_id, scenario_fs,
                           scenario_fs_snapshot>>
      ]_vars

\* C21: an ls whose target is outside or above the root, or names no node of
\* the snapshot, returns "ls: cannot access '<display>': No such file or
\* directory" cut to its first max_output characters, truncated telling
\* whether the message is longer than max_output bytes, <display> being the
\* target as typed or "." when none was; cwd, username, history and scenario
\* id stay as they were, and so does a filesystem cache that was already
\* built (one that was not is built from the tree the session holds, or
\* else from the fs.json of its scenario)
LsFailureClipped ==
    [][ FailedLsStep =>
            /\ last'.outcome = "returned"
            /\ last'.full = LsMessage(LsDisplay(LsArgOf(last'.line)))
            /\ last'.out = Prefix(last'.full, max_output)
            /\ last'.truncated = (ByteLen(last'.full) > max_output)
            /\ UNCHANGED <<cwd, username, history, scenario_id>>
            /\ scenario_fs_snapshot # NoneVal =>
                  UNCHANGED <<scenario_fs, scenario_fs_snapshot>>
            /\ scenario_fs_snapshot = NoneVal =>
                  /\ scenario_fs' = (IF scenario_fs # NoneVal THEN scenario_fs
                                     ELSE load_fs(deployment, scenario_id))
                  /\ scenario_fs_snapshot' = FileSystemSnapshot(scenario_fs'.node)
      ]_vars

LsFailureClipped_witness ==
    /\ LsFails
    /\ last.line = "ls -la"
    /\ last.cwd_before = "/home/user/data"
    /\ scenario_id = "default"
    /\ last.out = "ls: cannot access '.': No such file or directory"

\* the entry line of the stated shape for node under the name given
EntryLine(node, name) ==
    LET dir  == "type" \in DOMAIN node /\ node.type = "dir"
        size == IF "size" \in DOMAIN node THEN ToString(node.size) ELSE "0"
    IN  (IF dir THEN "drwxr-xr-x" ELSE "-rw-r--r--")
            \o " " \o Rep(" ", 2) \o (IF dir THEN "2" ELSE "1")
            \o " user user "
            \o Rep(" ", 8 - Len(size)) \o size
            \o " Jan 01 00:00 " \o name

\* the node listed as "..": the parent of the directory listed, the root for
\* the root
LsParent ==
    LET rel == RelOf(LsTarget.parts)
    IN  IF rel = <<>> THEN LsNode
        ELSE get_node(scenario_fs_snapshot, SubSeq(rel, 1, Len(rel) - 1))

\* the children indexed under the directory last listed
LsChildren == list_dir(scenario_fs_snapshot, RelOf(LsTarget.parts)).items

\* C22: every line ls produces has the shape "<perms> <links, width 3> user
\* user <size, width 8> Jan 01 00:00 <name>", with drwxr-xr-x and 2 links for a
\* directory and -rw-r--r-- and 1 link otherwise, and the size of the node or
\* 0 without one: the line of ".", the line of "..", the line of each child,
\* and the single line that an ls of a file returns
EntryLinesShaped ==
    (LsHandled /\ LsTarget.ok /\ IsNode(LsNode)) =>
        IF IsDir(LsNode)
        THEN /\ Len(ListingLines) = 2 + Len(LsChildren)
             /\ ListingLines[1] = EntryLine(LsNode, ".")
             /\ ListingLines[2] = EntryLine(LsParent, "..")
             /\ \A i \in 3..Len(ListingLines) :
                   \E k \in DOMAIN LsChildren :
                       ListingLines[i] =
                           EntryLine(LsChildren[k],
                                     IF "name" \in DOMAIN LsChildren[k]
                                     THEN LsChildren[k].name ELSE "")
        ELSE /\ last.out = EntryLine(LsNode, LsNode.name)
             /\ ~last.truncated

EntryLinesShaped_witness ==
    /\ LsHandled
    /\ scenario_id = "alt"
    /\ last.line = "ls logs"
    /\ last.out = "-rw-r--r--   1 user user        4 Jan 01 00:00 logs"
    /\ ~last.truncated

----------------------------------------------------------------------------
(* Properties of the snapshot of a tree *)

RECURSIVE Visits(_, _)
RECURSIVE VisitsBelow(_, _, _)
\* the visits of the build of a snapshot, in order: each is a relative path
\* and the node put there, from node at rel on, a child without a name and
\* all below it left out
Visits(node, rel) ==
    <<[rel_path |-> rel, node |-> node]>>
    \o (IF "type" \in DOMAIN node /\ node.type = "dir" /\ "children" \in DOMAIN node
        THEN VisitsBelow(node.children, 1, rel)
        ELSE <<>>)

VisitsBelow(children, k, rel) ==
    IF k > Len(children) THEN <<>>
    ELSE (IF "name" \in DOMAIN children[k] /\ children[k].name # ""
          THEN Visits(children[k], rel \o <<children[k].name>>)
          ELSE <<>>)
         \o VisitsBelow(children, k + 1, rel)

\* the visits of the build of the snapshot held
Built == Visits(scenario_fs.node, <<>>)

\* the places in the build at which rel_path was visited
VisitsOf(rel_path) == {i \in DOMAIN Built : Built[i].rel_path = rel_path}

\* the node put at rel_path, the later one if the build put two there
InsertedAt(rel_path) ==
    Built[CHOOSE i \in VisitsOf(rel_path) : \A j \in VisitsOf(rel_path) : j <= i].node

\* C23: get_node of a path visited while the snapshot was built returns the
\* node put at that path, the root for the empty path, and returns none for a
\* path not visited; a child without a name is not visited; list_dir returns
\* none exactly for a path that is missing or whose node is no directory, and
\* the children of the directory otherwise
RoundTrip ==
    /\ last.op = "get_node" =>
          IF VisitsOf(last.rel_path) # {}
          THEN last.result = InsertedAt(last.rel_path)
          ELSE last.result = NoneVal
    /\ last.op = "list_dir" =>
          /\ (last.result = NoneVal) <=>
                 \/ VisitsOf(last.rel_path) = {}
                 \/ ~( /\ "type" \in DOMAIN InsertedAt(last.rel_path)
                       /\ InsertedAt(last.rel_path).type = "dir" )
          /\ last.result # NoneVal =>
                 last.result.items =
                     (IF "children" \in DOMAIN InsertedAt(last.rel_path)
                      THEN InsertedAt(last.rel_path).children ELSE <<>>)
    /\ scenario_fs_snapshot.root = scenario_fs.node
    /\ \A p \in DOMAIN scenario_fs_snapshot.index : \A i \in DOMAIN p : p[i] # ""

RoundTrip_witness ==
    /\ scenario_fs.node =
          Dir("user", <<Dir("a", <<[type |-> "file", size |-> 3]>>), File("a", 1)>>)
    /\ last.op = "get_node"
    /\ last.rel_path = <<"a">>
    /\ last.result = File("a", 1)

----------------------------------------------------------------------------
(* Properties of the recorded history and of the identity commands *)

RECURSIVE HistoryText(_)
\* the commands of h in order, a newline between each two
HistoryText(h) ==
    IF h = <<>> THEN ""
    ELSE IF Len(h) = 1 THEN h[1]
    ELSE h[1] \o "\n" \o HistoryText(Tail(h))

\* a step in which a dispatch of `history` returns
HistoryStep ==
    /\ pc = "idle"
    /\ last' # last
    /\ CmdOf(last'.line) = "history"
    /\ last'.outcome = "returned"

\* C24 as stated: the output of `history` is the recorded commands joined by
\* newlines, whatever their length
HistoryExact ==
    [][ HistoryStep => last'.out = HistoryText(history) ]_vars

\* C24: a dispatch of `history` produces the recorded commands in recording
\* order, joined by single newlines with none at the end, the empty string
\* for an empty history, "ls\npwd" after ls and pwd were recorded, and the
\* history line itself as the last line when it was recorded before the
\* dispatch; what is returned is the first max_output characters of that
\* text, flagged truncated exactly when the text is longer than max_output
\* bytes
HistoryClipped ==
    [][ HistoryStep =>
            /\ last'.full = HistoryText(history)
            /\ last'.out = Prefix(last'.full, max_output)
            /\ last'.truncated = (ByteLen(last'.full) > max_output)
            /\ history = <<>> => last'.out = ""
            /\ history = <<"ls", "pwd">> => last'.out = "ls\npwd" /\ ~last'.truncated
            /\ (history # <<>> /\ history[Len(history)] = "history") =>
                  LET lines == Split(last'.full, "\n")
                  IN  lines[Len(lines)] = "history"
      ]_vars

HistoryClipped_witness ==
    /\ Returned
    /\ last.line = "history"
    /\ history = <<"ls", "history">>
    /\ last.out = "ls\nhistory"
    /\ ~last.truncated

\* C25: the history changes only by a command being appended at its end, no
\* dispatch under way, and never by the empty command: what was recorded
\* stays, in its order; and a step of a dispatch (its start, its settling,
\* its return, its failure, its cancellation) leaves the history as it was
HistoryAppendOnly ==
    [][ /\ history' # history =>
              /\ Len(history') = Len(history) + 1
              /\ SubSeq(history', 1, Len(history)) = history
              /\ history'[Len(history')] # ""
              /\ pc = "idle" /\ pc' = "idle"
              /\ last' = last
        /\ (last' # last \/ pc' # pc \/ calls' # calls \/ audit' # audit
               \/ cwd' # cwd) =>
              history' = history
      ]_vars

HistoryAppendOnly_witness ==
    /\ history = <<"ls", "pwd">>
    /\ Returned
    /\ last.line = "cd logs"
    /\ cwd = "/home/user/logs"

\* a step in which id, whoami or history is dispatched
IdentityStep ==
    /\ pc = "idle"
    /\ last' # last
    /\ CmdOf(last'.line) \in {"id", "whoami", "history"}

\* what the identity command cmd says of the user and the history given: the
\* name where there is one, root (id) or guest (whoami) where there is none
IdentityText(cmd, user, hist) ==
    CASE cmd = "id" ->
            LET u == IF user # "" THEN user ELSE "root"
            IN  "uid=1000(" \o u \o ") gid=1000(" \o u \o ") groups=1000(" \o u \o ")"
      [] cmd = "whoami" -> (IF user # "" THEN user ELSE "guest")
      [] OTHER -> HistoryText(hist)

\* what a dispatch of an identity command leaves alone: no backend is called,
\* nothing is written to the audit log, and the session keeps its cwd, its
\* name, its history and its filesystem cache, built or not
IdentityStepPure ==
    /\ last'.outcome = "returned"
    /\ pc' = "idle"
    /\ calls' = <<>>
    /\ audit' = <<>>
    /\ last'.backend = NoBackend
    /\ UNCHANGED <<cwd, username, history, scenario_id, scenario_fs, scenario_fs_snapshot>>

\* C26 as stated: id, whoami and history return the text computed from the
\* username and the history, whatever its length
IdentityExact ==
    [][ IdentityStep =>
            /\ last'.out = IdentityText(CmdOf(last'.line), username, history)
            /\ IdentityStepPure
      ]_vars

\* C26: a dispatch of id, whoami or history computes its text from the
\* username and the history alone ("uid=1000(U) gid=1000(U) groups=1000(U)"
\* and U for the username U, never the canned id.txt), returns the first
\* max_output characters of it, flagged truncated exactly when the text is
\* longer than max_output bytes, calls no backend though one is configured,
\* and leaves session.scenario_fs and session.scenario_fs_snapshot as they
\* were
IdentityPure ==
    [][ IdentityStep =>
            /\ last'.full = IdentityText(CmdOf(last'.line), username, history)
            /\ last'.out = Prefix(last'.full, max_output)
            /\ last'.truncated = (ByteLen(last'.full) > max_output)
            /\ IdentityStepPure
      ]_vars

IdentityPure_witness ==
    /\ Returned
    /\ mode = "single"
    /\ username = "alice"
    /\ last.line = "id"
    /\ last.out = "uid=1000(alice) gid=1000(alice) groups=1000(alice)"
    /\ scenario_fs_snapshot = NoneVal
    /\ calls = <<>>

----------------------------------------------------------------------------
(* Properties of the static corpus *)

\* the scenario has a canned file of the name given, or the default scenario
\* has one
HasAsset(name) ==
    \/ TxtFile(deployment, scenario_id \o "/txtcmds/" \o name \o ".txt").state # "absent"
    \/ TxtFile(deployment, "default/txtcmds/" \o name \o ".txt").state # "absent"

\* the line is settled before the static corpus is reached: it is empty, an
\* identity command, one of the two cat lines, pwd, or a cd or ls of a
\* session that has a filesystem
SettledEarlier(line) ==
    LET argv == Argv(line)
        cmd  == CmdOf(line)
    IN  \/ cmd \in {"", "id", "whoami", "history", "pwd"}
        \/ /\ cmd = "cat" /\ Len(argv) >= 2
           /\ argv[2] \in {"/etc/passwd", "etc/passwd", "/etc/shadow", "etc/shadow"}
        \/ /\ cmd \in {"cd", "ls"}
           /\ get_fs_snapshot(deployment, Session).snap.kind = "snapshot"

\* a step that starts the dispatch of a line the static corpus has to settle
StaticStep ==
    /\ pc = "idle"
    /\ last' # last
    /\ ~SettledEarlier(last'.line)

\* C27: a line that reaches the static corpus with a mapped command (pwd, ls,
\* df, ps, busybox) that has no canned file in the scenario of the session or
\* in the default one returns "sh: <cmd>: command not found" and calls no
\* backend, with one configured too; with a command that is not mapped and
\* has no canned file it goes to the backend where one is configured, and
\* returns "sh: <cmd>: command not found" where none is
StaticOutcome ==
    [][ StaticStep =>
            LET cmd == CmdOf(last'.line)
                stated == "sh: " \o cmd \o ": command not found"
            IN  IF cmd \in {"pwd", "ls", "df", "ps", "busybox"}
                THEN ~HasAsset(cmd) =>
                        /\ last'.outcome = "returned"
                        /\ last'.out = stated
                        /\ ~last'.truncated
                        /\ pc' = "idle"
                        /\ calls' = <<>>
                ELSE ~HasAsset(cmd) =>
                        IF mode = "single"
                        THEN /\ pc' = "llm_wait"
                             /\ Len(calls') = 1
                             /\ calls'[1].command = StrippedLine(last'.line)
                        ELSE /\ last'.outcome = "returned"
                             /\ last'.out = stated
                             /\ ~last'.truncated
                             /\ pc' = "idle"
                             /\ calls' = <<>>
      ]_vars

StaticOutcome_witness ==
    /\ Returned
    /\ mode = "single"
    /\ scenario_id = "alt"
    /\ last.line = "df"
    /\ last.out = "sh: df: command not found"
    /\ calls = <<>>
    /\ pc = "idle"

\* the text canned under the name given: that of the scenario of the session
\* if it has the file, else that of the default scenario, else none
CannedText(name) ==
    LET own      == TxtFile(deployment, scenario_id \o "/txtcmds/" \o name \o ".txt")
        fallback == TxtFile(deployment, "default/txtcmds/" \o name \o ".txt")
    IN  IF own.state = "text" THEN own.text
        ELSE IF own.state = "absent" /\ fallback.state = "text" THEN fallback.text
        ELSE ""

\* a step that dispatches cat /etc/passwd or cat /etc/shadow
CatStep ==
    /\ pc = "idle"
    /\ last' # last
    /\ StrippedLine(last'.line) \in {"cat /etc/passwd", "cat /etc/shadow"}

\* C28: cat /etc/passwd and cat /etc/shadow return the canned etc_passwd and
\* etc_shadow text of the scenario of the session, else of the default
\* scenario, else the empty string with truncated false, cut to max_output as
\* every canned text is; from any cwd, with the filesystem cache left as it
\* was, built or not, and with no backend called
CatCanned ==
    [][ CatStep =>
            LET text == CannedText(IF StrippedLine(last'.line) = "cat /etc/passwd"
                                   THEN "etc_passwd" ELSE "etc_shadow")
            IN  /\ last'.outcome = "returned"
                /\ last'.full = text
                /\ last'.out = Prefix(text, max_output)
                /\ last'.truncated = (ByteLen(text) > max_output)
                /\ text = "" => (last'.out = "" /\ ~last'.truncated)
                /\ pc' = "idle"
                /\ calls' = <<>>
                /\ UNCHANGED <<cwd, scenario_id, scenario_fs, scenario_fs_snapshot>>
      ]_vars

CatCanned_witness ==
    /\ Returned
    /\ mode = "single"
    /\ scenario_id = "alt"
    /\ cwd = "/home/user/data"
    /\ last.line = "cat /etc/passwd"
    /\ last.out = "admin:x:0:0:admin:/root:/bin/ash"
    /\ ~last.truncated
    /\ calls = <<>>

----------------------------------------------------------------------------
(* Properties of the filesystem cache *)

\* the tree a session of the scenario id given works on: that of the fs.json
\* of the scenario, else of the default scenario, else an empty directory
\* named user
TreeOfScenario(id) ==
    LET own      == FsFile(deployment, id)
        fallback == FsFile(deployment, "default")
    IN  IF own.state = "json" THEN own.value
        ELSE IF fallback.state = "json" THEN fallback.value
        ELSE [kind |-> "dict", node |-> [type |-> "dir", name |-> "user", children |-> <<>>]]

\* what the session has cached is of its scenario: the tree is the tree of
\* the scenario, and the snapshot is the snapshot of that tree
CacheOfScenario ==
    /\ scenario_fs # NoneVal => scenario_fs = TreeOfScenario(scenario_id)
    /\ scenario_fs_snapshot # NoneVal =>
          /\ scenario_fs # NoneVal
          /\ scenario_fs_snapshot.kind = "snapshot"
          /\ scenario_fs_snapshot.root = scenario_fs.node
          /\ \A rel \in DOMAIN scenario_fs_snapshot.index :
                \E i \in DOMAIN Visits(scenario_fs.node, <<>>) :
                    /\ Visits(scenario_fs.node, <<>>)[i].rel_path = rel
                    /\ Visits(scenario_fs.node, <<>>)[i].node = scenario_fs_snapshot.index[rel]

\* C29: the filesystem a session has cached is that of its scenario: a
\* snapshot once built is kept as it is, with its tree, by every step of
\* every later command; a change of the scenario id leaves neither tree nor
\* snapshot cached; and in every state the tree cached is the tree of the
\* current scenario and the snapshot cached holds nodes of that tree only
CacheBoundToScenario ==
    /\ []CacheOfScenario
    /\ [][ /\ (scenario_fs_snapshot # NoneVal /\ last'.outcome # "none") =>
                  UNCHANGED <<scenario_fs, scenario_fs_snapshot>>
           /\ scenario_id' # scenario_id =>
                  (scenario_fs' = NoneVal /\ scenario_fs_snapshot' = NoneVal)
         ]_vars

CacheBoundToScenario_witness ==
    /\ scenario_id = "alt"
    /\ cwd = "/home/user/logs"
    /\ scenario_fs_snapshot # NoneVal
    /\ scenario_fs.node = AltTree
    /\ Returned
    /\ last.line = "ls"
    /\ last.out = "-rw-r--r--   1 user user        4 Jan 01 00:00 logs"

----------------------------------------------------------------------------
(* Properties of the single backend *)

\* a step that hands a line to the single backend
SingleCallStep == pc = "idle" /\ pc' = "llm_wait"

\* a step in which the call of the single backend has returned a dict and
\* _simulate_with_llm ends
SingleAnswerStep ==
    /\ pc = "llm_wait"
    /\ pc' = "idle"
    /\ last'.backend["primary"].kind = "value"
    /\ last'.backend["primary"].value.kind = "dict"

\* the one call made: the stripped line, the tree of the session, a directory
\* named user, and the history as recorded so far
SingleCallAsStated ==
    /\ Len(calls') = 1
    /\ calls'[1].client = "primary"
    /\ calls'[1].command = StrippedLine(last'.line)
    /\ calls'[1].fs = scenario_fs'
    /\ calls'[1].fs.node.type = "dir"
    /\ calls'[1].fs.node.name = "user"
    /\ calls'[1].bash_history = history

\* the one audit record of the answer, with the output the response stands for
SingleRecordAsStated(output) ==
    /\ Len(audit') = 1
    /\ audit'[1].event = "llm.simulate_command"
    /\ audit'[1].command = StrippedLine(last'.line)
    /\ audit'[1].response = last'.backend["primary"].value.d
    /\ audit'[1].output = output
    /\ audit'[1].truncated = last'.truncated

\* C30: a line that goes to the single backend makes one call of
\* simulate_command, with the stripped line, the tree of the session and the
\* history recorded so far; when the call returns a response, dispatch
\* returns its stdout and stderr joined by a newline if both are non-empty,
\* else the one that is, else the empty string, and one llm.simulate_command
\* record with the command, the response, the output and the truncated flag
\* is appended to the audit log
SingleBackendAsStated ==
    [][ /\ SingleCallStep => SingleCallAsStated
        /\ SingleAnswerStep =>
              /\ calls' = calls
              /\ last'.outcome = "returned"
              /\ last'.out = RefOutput(last'.backend["primary"])
              /\ SingleRecordAsStated(RefOutput(last'.backend["primary"]))
      ]_vars

----------------------------------------------------------------------------
(* Appends to the events file and to the transcripts (LockSpec) *)

\* the tasks between acquiring and releasing the lock of a file
InSection(file, session) ==
    {t \in Tasks : /\ pc[t].file = file
                   /\ pc[t].at \in {"opened", "writing", "written"}
                   /\ (file = "events" \/ SessionOf(t) = session)}

\* a file is whole records, but for the record its one writer is in
WholeRecords(chunks, writers) ==
    /\ \A i \in 1..Len(chunks) :
           /\ chunks[i].part = (IF i % 2 = 1 THEN "head" ELSE "tail")
           /\ (i % 2 = 0 => chunks[i].task = chunks[i - 1].task)
    /\ Len(chunks) % 2 = 1 =>
           /\ chunks[Len(chunks)].task \in writers
           /\ pc[chunks[Len(chunks)].task].at = "writing"

\* C31: at most one task of any session is between acquiring and releasing
\* the events lock and the events file is a sequence of complete records,
\* also after waiting appends were cancelled; the same holds of each
\* transcript among the tasks of its session, and a task that waits for its
\* transcript lock while no task of its own session appends to the transcript
\* finds the lock free, whatever the other sessions do
AppendsSerialized ==
    /\ Cardinality(InSection("events", "")) <= 1
    /\ WholeRecords(audit, InSection("events", ""))
    /\ \A s \in {"A", "B"} :
           /\ Cardinality(InSection("tty", s)) <= 1
           /\ WholeRecords(last[s], InSection("tty", s))
    /\ \A t \in Tasks :
           (pc[t] = [at |-> "waiting", file |-> "tty"] /\ InSection("tty", SessionOf(t)) = {})
               => pending[LockOf(t, "tty")] = ""

\* half a record of session A's task is in the events file while the task of
\* session B waits for the events lock, a transcript append of session A is
\* under way, and the file already holds a complete record
AppendsSerialized_witness ==
    /\ pc["a1"] = [at |-> "writing", file |-> "events"]
    /\ pc["b1"] = [at |-> "waiting", file |-> "events"]
    /\ pc["a2"] = [at |-> "writing", file |-> "tty"]
    /\ Len(audit) = 3
    /\ audit[1].task = "b1"

----------------------------------------------------------------------------
(* The summaries of the ensemble statistics (ArbSpec) *)

\* the step in which an arbitration ends, by returning or by raising
ArbitrationEnds == pc = "ens_wait" /\ pc' = "idle" /\ last'.outcome # "cancelled"

\* the arbitration ending in this step was counted
ArbitrationCounted == ensemble_stats'.total_commands = ensemble_stats.total_commands + 1

\* the summary records among those the arbitration ending in this step wrote
SummariesWritten == {i \in DOMAIN audit' : audit'[i].event = "llm.ensemble.summary"}

\* C32: an arbitration that is counted emits one summary record exactly when
\* the new total is at least 10 above last_logged, and last_logged is then the
\* new total; the totals of the summaries are multiples of 10; last_logged
\* never exceeds total_commands and never decreases
SummaryEveryTen ==
    [][ /\ (ArbitrationEnds /\ ArbitrationCounted) =>
              /\ SummariesWritten # {}
                    <=> ensemble_stats'.total_commands - ensemble_stats.last_logged >= SummaryEvery
              /\ Cardinality(SummariesWritten) <= 1
              /\ SummariesWritten # {} =>
                    ensemble_stats'.last_logged = ensemble_stats'.total_commands
              /\ \A i \in SummariesWritten :
                    /\ audit'[i].total_commands = ensemble_stats'.total_commands
                    /\ audit'[i].total_commands % SummaryEvery = 0
        /\ ensemble_stats'.last_logged <= ensemble_stats'.total_commands
        /\ ensemble_stats'.last_logged >= ensemble_stats.last_logged
      ]_vars

----------------------------------------------------------------------------
(* The handler of a connection (SrvSpec) *)

\* C33: AuthGate.run never writes more 'login: ' prompts than max_attempts,
\* whether the client answers, disconnects or lets the reads time out; when it
\* has returned True the session's username is the name entered, or 'guest'
\* for an empty one, and a password line was read after it; when it has
\* returned False the handler is through
LoginPromptsBounded ==
    /\ slots.login_prompts <= max_attempts
    /\ slots.auth = "ok" =>
          /\ username = (IF slots.entered # "" THEN slots.entered ELSE "guest")
          /\ slots.login_prompts >= 1
    /\ slots.auth = "failed" => pc = "closed"

\* the records of an event logged for the connection
EventRecords(event) == {i \in DOMAIN audit : audit[i].event = event}

\* C37: a connection has exactly one 'session.connect' record from its first
\* step on, no 'session.close' record while its handler runs, and exactly one
\* once the handler is through, which is then the last record of the
\* connection
ConnectAndCloseOnce ==
    /\ pc # "new" => EventRecords("session.connect") = {1}
    /\ pc # "closed" => EventRecords("session.close") = {}
    /\ pc = "closed" => EventRecords("session.close") = {Len(audit)}

\* C38: once the reader of the shell loop has reported end of input, as None
\* or as "", the handler is through; a handler that is through has logged
\* 'session.close' and closed the writer; and no line whose first word is exit
\* or logout is passed to Router.dispatch
ShellLoopEnds ==
    /\ slots.eof => pc = "closed"
    /\ pc = "closed" => slots.writer_closed /\ EventRecords("session.close") # {}
    /\ \A i \in DOMAIN calls : SplitWs(calls[i])[1] \notin {"exit", "logout"}

----------------------------------------------------------------------------
(* The working directory of a session (Spec) *)

\* the components of session.cwd, as the resolution of a relative target
\* takes them
CwdParts == SelectSeq(Split(StripChars(cwd, {"/"}), "/"), LAMBDA e : e # "")

\* the node of the cached snapshot that session.cwd denotes
CwdNode == get_node(scenario_fs_snapshot, RelOf(CwdParts))

\* C34: in every state of a session whose scenario is not rebound, once a
\* snapshot with a directory root is cached session.cwd lies under /home/user
\* and denotes a node of the snapshot that is a directory, and before one is
\* cached session.cwd is /home/user; an ls without target answered from the
\* snapshot never returns the 'cannot access' error
CwdIsDirectory ==
    /\ scenario_fs_snapshot.kind # "snapshot" => cwd = ROOT_FS_PATH
    /\ (scenario_fs_snapshot.kind = "snapshot" /\ IsDir(scenario_fs_snapshot.root)) =>
          /\ HasBasePrefix(CwdParts)
          /\ IsNode(CwdNode)
          /\ IsDir(CwdNode)
    /\ (LsHandled /\ LsArg = "") => ~StartsWith(last.full, "ls: cannot access")

\* an ls without target lists the directory that an earlier cd has entered
CwdIsDirectory_witness ==
    /\ cwd = "/home/user/logs"
    /\ last.line = "ls"
    /\ LsHandled
    /\ last.cwd_before = cwd
    /\ IsDir(CwdNode)
    /\ CwdNode.name = "logs"

----------------------------------------------------------------------------
(* Where the canned texts are read from (TravSpec) *)

\* the canned asset the dispatch of this step has looked up for the command
\* token of its line
AssetRead ==
    get_txtcmd_path(deployment, scenario_id,
                    IF last'.layer = "mapped" THEN Stem(TXT_CMD_MAP[CmdOf(last'.line)])
                    ELSE CmdOf(last'.line))

\* file is a file of the directory <scenarios_root>/<scenario>/txtcmds
InTxtcmds(file, scenario) ==
    LET dir == scenario \o "/txtcmds/"
    IN  /\ StartsWith(file, dir)
        /\ Len(file) > Len(dir)
        /\ \A i \in (Len(dir) + 1)..Len(file) : SubSeq(file, i, i) # "/"

\* C35: whenever dispatch returns the content of a canned asset found for the
\* command token, the file read is a file of the txtcmds directory of the
\* session's scenario or of the default scenario, whatever the token holds
LookupConfined ==
    [][ (last' # last /\ last'.layer \in {"mapped", "literal"} /\ AssetRead.kind = "path") =>
            \/ InTxtcmds(OsPath(AssetRead.path), scenario_id)
            \/ InTxtcmds(OsPath(AssetRead.path), "default")
      ]_vars

----------------------------------------------------------------------------
(* The filesystem caches and the path-aware builtins (ScenSpec) *)

\* what the line dispatched in this step comes to in a session of the same
\* scenario, cwd, username and history that has no filesystem cached yet
UncachedRoute ==
    route(deployment, mode,
          [Session EXCEPT !.scenario_fs = NoneVal, !.scenario_fs_snapshot = NoneVal],
          last'.line)

\* C36: a dispatch of ls, cd or pwd comes to what it comes to in a session of
\* the same scenario and cwd in which nothing was cached yet: the same layer
\* answers with the same text and leaves the same cwd, or the line goes to the
\* simulation backend in both
CachingTransparent ==
    [][ (pc = "idle" /\ last' # last /\ CmdOf(last'.line) \in {"ls", "cd", "pwd"}) =>
            IF pc' = "idle"
            THEN /\ UncachedRoute.kind # "simulate"
                 /\ UncachedRoute.kind = "raise" <=> last'.outcome = "raised"
                 /\ UncachedRoute.layer = last'.layer
                 /\ UncachedRoute.full = last'.full
                 /\ UncachedRoute.s.cwd = cwd'
            ELSE UncachedRoute.kind = "simulate"
      ]_vars

----------------------------------------------------------------------------
(* Failed and structured responses in an arbitration (ArbSpec) *)

\* both calls of the arbitration in progress failed: each raised or returned
\* a value that is no dict
BothFailed == \A c \in Clients : Failed(Outcomes[c])

\* the score the audit record of the arbitration ending in this step gives
\* backend c
ScoreLogged(c) ==
    {audit'[i][c \o "_score"] : i \in {j \in DOMAIN audit' : audit'[j].event = "llm.ensemble"}}

----------------------------------------------------------------------------
(* Listings and the index of the snapshot (LsSpec) *)

\* the names on the child lines of the listing last returned
ListedNames ==
    [i \in 1..(Len(ListingLines) - 2) |-> NameColumn(ListingLines[i + 2])]

\* the node the index holds for a name listed under the directory last listed
IndexedAs(name) == get_node(scenario_fs_snapshot, Append(RelOf(LsTarget.parts), name))

\* C40: the child lines of a listing of a directory carry names that are not
\* empty and differ from one another, the index holds a node under each name
\* listed and the line is the line of that node (its type and its size); and
\* every path of the index but the root has its parent in the index, as a
\* directory
ListingAgreesWithIndex ==
    /\ LsOfDir =>
          /\ \A i \in DOMAIN ListedNames : ListedNames[i] # ""
          /\ \A i, j \in DOMAIN ListedNames : i # j => ListedNames[i] # ListedNames[j]
          /\ \A i \in DOMAIN ListedNames :
                /\ IsNode(IndexedAs(ListedNames[i]))
                /\ ListingLines[i + 2] = EntryLine(IndexedAs(ListedNames[i]), ListedNames[i])
    /\ scenario_fs_snapshot.kind = "snapshot" =>
          \A path \in DOMAIN scenario_fs_snapshot.index :
              path # <<>> =>
                  /\ SubSeq(path, 1, Len(path) - 1) \in DOMAIN scenario_fs_snapshot.index
                  /\ IsDir(scenario_fs_snapshot.index[SubSeq(path, 1, Len(path) - 1)])

============================================================================
